---- MODULE Spec2Model ----
(***************************************************************************)
(* A model of go-corset's constraint acceptor, trace expansion and         *)
(* HIR -> MIR lowering.                                                    *)
(*                                                                         *)
(*   Spec       the batched, concurrent acceptor (schema.Accepts and       *)
(*              processConstraintBatch) over small schemas and traces      *)
(*   SpecCap    the same acceptor on batches larger than the capacity of   *)
(*              the error channel                                          *)
(*   SpecLower  the lowering of an HIR expression (expand, extractCondition *)
(*              and extractBody) and the evaluation of its result          *)
(*   SpecExpand the sequential trace expansion (schema.ExpandTrace)         *)
(***************************************************************************)
EXTENDS Integers, Sequences, FiniteSets, TLC

VARIABLES
    trace,        \* column name -> [data, padding]: the trace (shared by all phases)
    constraints,  \* the schema's constraints, in declaration order
    batchsize,    \* Accepts' batchsize argument
    pc,           \* position of the goroutine running Accepts
    iter,         \* the constraint iterator: index of the next constraint
    batch,        \* Accepts' batch counter
    n,            \* processConstraintBatch: tasks launched in this batch
    i,            \* processConstraintBatch: results received in this batch
    err,          \* processConstraintBatch: its local err
    chan,         \* the error channel c of the current batch
    tasks,        \* constraint index -> "idle" | "running" | "done"
    received,     \* history: the values received from c in this batch, in order
    result,       \* what Accepts returned (once pc = "done")
    hexpr,        \* lowering: the HIR expression being lowered
    hcons,        \* lowering: the HIR constraint the expression is of
    mirSchema,    \* lowering: the constraints added to the MIR schema
    expanded,     \* lowering: what expand returned for it
    lowered,      \* lowering: the MIR expressions lowerTo returned
    lpc,          \* lowering: "expand" | "extract" | "done"
    assignments,  \* expansion: the schema's assignments, in declaration order
    epc,          \* expansion: "loop" | "add" | "done"
    j,            \* expansion: the number of assignments ExpandTrace has completed
    newCols,      \* expansion: the columns the last ComputeColumns returned
    computed,     \* expansion: history, per computed assignment the columns it saw
    run,          \* expansion: 1 in the first run of ExpandTrace, 2 in a second one
    firstTrace,   \* expansion: history, the trace as the first run left it
    eresult,      \* expansion: what ExpandTrace returned
    mexpr,        \* evaluation: the MIR expression handed to EvalAt
    mk,           \* evaluation: the row handed to EvalAt
    mval,         \* evaluation: what EvalAt returned
    mpc,          \* evaluation: "eval" | "done"
    gadget,       \* gadgets: the gadget applied to the schema of one column X
    gschema,      \* gadgets: the schema as the gadget left it
    gpc           \* gadgets: "apply" | "expand" | "accept" | "panic"

accVars == <<constraints, batchsize, pc, iter, batch, n, i, err, chan, tasks,
             received, result>>
lowVars == <<hexpr, hcons, mirSchema, expanded, lowered, lpc>>
expVars == <<assignments, epc, j, newCols, computed, run, firstTrace, eresult>>
evalVars == <<mexpr, mk, mval, mpc>>
gadVars == <<gadget, gschema, gpc>>
vars == <<trace, accVars, lowVars, expVars, evalVars, gadVars>>

(***************************************************************************)
(* Bounds of the model.                                                    *)
(***************************************************************************)
\* The longest list of constraints of a schema handed to Accepts.
MaxConstraints == 3

(***************************************************************************)
(* The field.  The code computes in the BLS12-377 scalar field (fr.Element); *)
(* the model computes in the prime field of 2^16 + 1 elements, which holds  *)
(* the values of two bytes.                                                 *)
(***************************************************************************)
FieldPrime == 65537

Field == 0 .. (FieldPrime - 1)

FAdd(a, b) == (a + b) % FieldPrime

FSub(a, b) == (a - b + FieldPrime) % FieldPrime

\* The product in the field, computed over the two bytes of b so that no
\* intermediate value exceeds 32 bits.
FMul(a, b) == (((a * (b \div 256)) % FieldPrime) * 256 + a * (b % 256)) % FieldPrime

\* A nil *fr.Element.
Undef == -1

\* The outcome of dereferencing a nil *fr.Element (a runtime panic).
Panic == -2

(***************************************************************************)
(* Traces.                                                                 *)
(***************************************************************************)
HasColumn(tr, col) == col \in DOMAIN tr

\* The height of the trace: all columns of the (single) module are equally long.
Height(tr) ==
    IF DOMAIN tr = {} THEN 0
    ELSE LET c == CHOOSE c \in DOMAIN tr : TRUE IN Len(tr[c].data)

\* The value of a column on a row; rows outside the column give its padding.
GetByName(tr, col, k) ==
    IF ~HasColumn(tr, col) THEN Undef
    ELSE IF k < 0 \/ k >= Len(tr[col].data) THEN tr[col].padding
    ELSE tr[col].data[k + 1]

\* No trace cell: the value is a fresh fr.Element.
NoRef == <<>>

\* Write through a *fr.Element: a fresh element is private to the caller, a
\* pointer into a column changes the trace.
WriteCell(tr, ref, v) ==
    IF ref = NoRef THEN tr
    ELSE IF ref[2] < 0 \/ ref[2] >= Len(tr[ref[1]].data)
         THEN [tr EXCEPT ![ref[1]].padding = v]
         ELSE [tr EXCEPT ![ref[1]].data[ref[2] + 1] = v]

(***************************************************************************)
(* MIR expressions and their evaluation.  An evaluation returns the value,  *)
(* the trace cell the returned pointer refers to (NoRef for a fresh         *)
(* element) and the trace as the evaluation leaves it.                      *)
(***************************************************************************)
MCol(c, s) == [op |-> "col", col |-> c, shift |-> s]

MConst(v) == [op |-> "const", val |-> v]

MAdd(as) == [op |-> "add", args |-> as]

MSub(as) == [op |-> "sub", args |-> as]

MMul(as) == [op |-> "mul", args |-> as]

MNorm(a) == [op |-> "norm", arg |-> a]

MExp(a, pow) == [op |-> "exp", arg |-> a, pow |-> pow]

MInv(a) == [op |-> "inv", arg |-> a]

\* The mutant of ColumnAccessEvalAt: the pointer into the column is returned
\* as it is, without the clone.
ColumnAccessEvalAtNoClone(e, k, tr) ==
    LET v == GetByName(tr, e.col, k + e.shift)
    IN  [val |-> v, ref |-> IF v = Undef THEN NoRef ELSE <<e.col, k + e.shift>>, tr |-> tr]

ColumnAccessEvalAt(e, k, tr) ==
    LET v == GetByName(tr, e.col, k + e.shift)
    IN  [val |-> v, ref |-> NoRef, tr |-> tr]

ConstantEvalAt(e, k, tr) == [val |-> e.val, ref |-> NoRef, tr |-> tr]

\* The combinators handed to evalExprsAt: l.Add(l, r), l.Sub(l, r), l.Mul(l, r).
Combine(op, l, r) ==
    IF op = "add" THEN FAdd(l, r)
    ELSE IF op = "sub" THEN FSub(l, r)
    ELSE FMul(l, r)

\* The value a returned pointer refers to, now.
Deref(r, tr) == IF r.ref = NoRef THEN r.val ELSE GetByName(tr, r.ref[1], r.ref[2])

RECURSIVE EvalAt(_, _, _)
RECURSIVE evalExprsAtFrom(_, _, _, _, _)

\* evalExprsAt's loop from argument idx on; acc is the evaluation of the
\* first argument, folded in place with the arguments before idx.
evalExprsAtFrom(op, exprs, idx, k, acc) ==
    IF idx > Len(exprs) THEN acc
    ELSE LET ith == EvalAt(exprs[idx], k, acc.tr)
         IN  IF ith.val = Panic THEN ith
             ELSE IF ith.val = Undef THEN [val |-> Undef, ref |-> NoRef, tr |-> ith.tr]
             ELSE LET v == Combine(op, Deref(acc, ith.tr), ith.val)
                  IN  evalExprsAtFrom(op, exprs, idx + 1, k,
                          [val |-> v, ref |-> acc.ref, tr |-> WriteCell(ith.tr, acc.ref, v)])

evalExprsAt(op, exprs, k, tr) ==
    LET val == EvalAt(exprs[1], k, tr)
    IN  IF val.val \in {Undef, Panic} THEN val
        ELSE evalExprsAtFrom(op, exprs, 2, k, val)

NormaliseEvalAt(e, k, tr) ==
    LET val == EvalAt(e.arg, k, tr)
    IN  IF val.val = Panic THEN val
        ELSE IF val.val = Undef THEN [val |-> Panic, ref |-> NoRef, tr |-> val.tr]
        ELSE IF val.val # 0
             THEN [val |-> 1, ref |-> val.ref, tr |-> WriteCell(val.tr, val.ref, 1)]
             ELSE val

RECURSIVE FPow(_, _)

\* Repeated multiplication in the field.
FPow(a, pow) == IF pow = 0 THEN 1 ELSE FMul(a, FPow(a, pow - 1))

\* Exp: the argument's value raised to the power.
ExpEvalAt(e, k, tr) ==
    LET val == EvalAt(e.arg, k, tr)
    IN  IF val.val = Panic THEN val
        ELSE IF val.val = Undef THEN [val |-> Panic, ref |-> NoRef, tr |-> val.tr]
        ELSE [val |-> FPow(val.val, e.pow), ref |-> NoRef, tr |-> val.tr]

\* fr.Element.Inverse: the multiplicative inverse, zero for zero.
FInv(a) == IF a = 0 THEN 0 ELSE CHOOSE b \in Field : FMul(a, b) = 1

\* Inverse.EvalAt: the inverse is written to a new element; a nil argument is
\* dereferenced.
InverseEvalAt(e, k, tr) ==
    LET val == EvalAt(e.arg, k, tr)
    IN  IF val.val = Panic THEN val
        ELSE IF val.val = Undef THEN [val |-> Panic, ref |-> NoRef, tr |-> val.tr]
        ELSE [val |-> FInv(val.val), ref |-> NoRef, tr |-> val.tr]

EvalAt(e, k, tr) ==
    IF e.op = "col" THEN ColumnAccessEvalAt(e, k, tr)
    ELSE IF e.op = "const" THEN ConstantEvalAt(e, k, tr)
    ELSE IF e.op = "norm" THEN NormaliseEvalAt(e, k, tr)
    ELSE IF e.op = "inv" THEN InverseEvalAt(e, k, tr)
    ELSE IF e.op = "exp" THEN ExpEvalAt(e, k, tr)
    ELSE evalExprsAt(e.op, e.args, k, tr)

(***************************************************************************)
(* Constraints and their Accepts.  Accepts returns the failure (Nil for    *)
(* none) and the trace as the check leaves it.                             *)
(***************************************************************************)
\* A nil error.
Nil == [kind |-> "nil", c |-> 0, handle |-> "", row |-> 0]

\* A failure of the constraint declared at position c.
Failure(kind, c, handle, row) == [kind |-> kind, c |-> c, handle |-> handle, row |-> row]

RangeConstraint(handle, expr, bound) ==
    [kind |-> "range", handle |-> handle, expr |-> expr, bound |-> bound]

SortedPermutation(targets, signs, sources) ==
    [kind |-> "sorted", targets |-> targets, signs |-> signs, sources |-> sources]

RECURSIVE RangeAcceptsFromAboveBound(_, _, _, _)

\* The mutant of RangeAcceptsFrom: a value equal to the bound passes.
RangeAcceptsFromAboveBound(p, c, k, tr) ==
    IF k >= Height(tr) THEN [err |-> Nil, tr |-> tr]
    ELSE LET kth == EvalAt(p.expr, k, tr)
         IN  IF kth.val < 0 THEN [err |-> Failure("panic", c, p.handle, k), tr |-> kth.tr]
             ELSE IF kth.val > p.bound
                  THEN [err |-> Failure("range", c, p.handle, k), tr |-> kth.tr]
                  ELSE RangeAcceptsFromAboveBound(p, c, k + 1, kth.tr)

RECURSIVE RangeAcceptsFrom(_, _, _, _)

\* RangeConstraint.Accepts' loop from row k on.
RangeAcceptsFrom(p, c, k, tr) ==
    IF k >= Height(tr) THEN [err |-> Nil, tr |-> tr]
    ELSE LET kth == EvalAt(p.expr, k, tr)
         IN  IF kth.val < 0 THEN [err |-> Failure("panic", c, p.handle, k), tr |-> kth.tr]
             ELSE IF kth.val >= p.bound
                  THEN [err |-> Failure("range", c, p.handle, k), tr |-> kth.tr]
                  ELSE RangeAcceptsFrom(p, c, k + 1, kth.tr)

RangeAccepts(p, c, tr) == RangeAcceptsFrom(p, c, 0, tr)

\* The number of entries of a sequence equal to v.
Count(s, v) == Cardinality({x \in DOMAIN s : s[x] = v})

\* util.IsPermutationOf: the two arrays hold the same values, each as often.
UtilIsPermutationOf(dst, src) ==
    /\ Len(dst) = Len(src)
    /\ \A x \in DOMAIN src : Count(dst, src[x]) = Count(src, src[x])

\* util.AreLexicographicallySorted: every row is at or after the row before it
\* in the lexicographic order the signs give (TRUE: ascending).
AreLexicographicallySorted(cols, signs) ==
    \A r \in 1 .. (Len(cols[1]) - 1) :
        \/ \A x \in DOMAIN cols : cols[x][r] = cols[x][r + 1]
        \/ \E x \in DOMAIN cols :
              /\ \A y \in 1 .. (x - 1) : cols[y][r] = cols[y][r + 1]
              /\ IF signs[x] THEN cols[x][r] < cols[x][r + 1]
                             ELSE cols[x][r] > cols[x][r + 1]

\* IsPermutationOf(target, source, tr) of the table package.
IsPermutationOf(target, source, c, tr) ==
    IF ~UtilIsPermutationOf(tr[target].data, tr[source].data)
    THEN Failure("not-permutation", c, target, 0)
    ELSE Nil

\* The first index of a sequence whose entry satisfies Test, 0 for none.
FirstIndex(s, Test(_)) ==
    IF \E x \in DOMAIN s : Test(s[x])
    THEN CHOOSE x \in DOMAIN s : Test(s[x]) /\ \A y \in 1 .. (x - 1) : ~Test(s[y])
    ELSE 0

SortedPermutationAccepts(p, c, tr) ==
    LET Missing(col) == ~HasColumn(tr, col)
        mt == FirstIndex(p.targets, Missing)
        ms == FirstIndex(p.sources, Missing)
        NotPerm(x) == IsPermutationOf(p.targets[x], p.sources[x], c, tr) # Nil
        np == FirstIndex([x \in DOMAIN p.sources |-> x], NotPerm)
        cols == [x \in DOMAIN p.targets |-> tr[p.targets[x]].data]
    IN  IF mt # 0 THEN [err |-> Failure("missing-target", c, p.targets[mt], 0), tr |-> tr]
        ELSE IF ms # 0 THEN [err |-> Failure("missing-source", c, p.sources[ms], 0), tr |-> tr]
        ELSE IF np # 0
             THEN [err |-> IsPermutationOf(p.targets[np], p.sources[np], c, tr), tr |-> tr]
        ELSE IF AreLexicographicallySorted(cols, p.signs) THEN [err |-> Nil, tr |-> tr]
        ELSE [err |-> Failure("not-sorted", c, p.targets[1], 0), tr |-> tr]

\* A vanishing constraint over all rows (its domain is nil).
VanishingConstraint(handle, expr) == [kind |-> "vanishing", handle |-> handle, expr |-> expr]

RECURSIVE VanishingAcceptsFrom(_, _, _, _)

\* The check of a vanishing constraint from row k on: the first row on which
\* the expression has a value other than zero is the failure.
VanishingAcceptsFrom(p, c, k, tr) ==
    IF k >= Height(tr) THEN [err |-> Nil, tr |-> tr]
    ELSE LET kth == EvalAt(p.expr, k, tr)
         IN  IF kth.val = Panic THEN [err |-> Failure("panic", c, p.handle, k), tr |-> kth.tr]
             ELSE IF kth.val # Undef /\ kth.val # 0
                  THEN [err |-> Failure("vanishing", c, p.handle, k), tr |-> kth.tr]
                  ELSE VanishingAcceptsFrom(p, c, k + 1, kth.tr)

VanishingAccepts(p, c, tr) == VanishingAcceptsFrom(p, c, 0, tr)

\* ith.Accepts(tr) of the constraint declared at position c.
ConstraintAccepts(p, c, tr) ==
    IF p.kind = "range" THEN RangeAccepts(p, c, tr)
    ELSE IF p.kind = "vanishing" THEN VanishingAccepts(p, c, tr)
    ELSE SortedPermutationAccepts(p, c, tr)

(***************************************************************************)
(* The acceptor: Accepts(batchsize, schema, trace) and                     *)
(* processConstraintBatch.  One goroutine runs Accepts; every launched     *)
(* checker is a goroutine of its own.                                      *)
(***************************************************************************)
\* The capacity of the error channel: make(chan error, 10).
ChanCap == 10

\* Accepts never runs more rounds than this in the model (with batchsize 0 its
\* loop makes no progress and the batch counter grows without end).
MaxBatches == MaxConstraints + 2

NumConstraints == Len(constraints)

\* iter.HasNext()
HasNext == iter <= NumConstraints

\* The mutant of LaunchGuard: one task too many per batch.
LaunchGuardOffByOne == n <= batchsize /\ HasNext

\* The condition of the launch loop: n < batchsize && iter.HasNext().
LaunchGuard == n < batchsize /\ HasNext

\* The mutant of ReceiveGuard: the loop stops at the first failure.
ReceiveGuardShortCircuit == i < n /\ err = Nil

\* The condition of the receive loop: i < n.
ReceiveGuard == i < n

\* The mutant of ReceiveErr: only the first failure is kept.
ReceiveErrFirst(e) == IF e # Nil /\ err = Nil THEN e ELSE err

\* The body of the receive loop: if e := <-c; e != nil { err = e }.
ReceiveErr(e) == IF e # Nil THEN e ELSE err

\* The mutant of BatchFailed: a failed batch does not stop Accepts.
BatchFailedNever == FALSE

\* Accepts' test of what processConstraintBatch returned: err != nil.
BatchFailed == err # Nil

\* Accepts: the loop test.  With constraints left, processConstraintBatch is
\* entered (n := 0, a fresh channel, err nil); with none, Accepts returns nil.
AcceptsLoop ==
    /\ pc = "loop"
    /\ IF HasNext
       THEN /\ pc' = "launch"
            /\ n' = 0
            /\ i' = 0
            /\ err' = Nil
            /\ chan' = <<>>
            /\ received' = <<>>
            /\ UNCHANGED result
       ELSE /\ pc' = "done"
            /\ result' = Nil
            /\ UNCHANGED <<evalVars, gadVars, n, i, err, chan, received>>
    /\ UNCHANGED <<evalVars, gadVars, trace, constraints, batchsize, iter, batch, tasks, lowVars, expVars>>

\* processConstraintBatch: one round of the launch loop starts the checker of
\* the next constraint.
Launch ==
    /\ pc = "launch"
    /\ LaunchGuard
    /\ tasks' = [tasks EXCEPT ![iter] = "running"]
    /\ iter' = iter + 1
    /\ n' = n + 1
    /\ UNCHANGED <<evalVars, gadVars, trace, constraints, batchsize, pc, batch, i, err, chan, received,
                   result, lowVars, expVars>>

\* processConstraintBatch: the launch loop ends.
LaunchEnd ==
    /\ pc = "launch"
    /\ ~LaunchGuard
    /\ pc' = "recv"
    /\ i' = 0
    /\ UNCHANGED <<evalVars, gadVars, trace, constraints, batchsize, iter, batch, n, err, chan, tasks,
                   received, result, lowVars, expVars>>

\* A launched checker that has not sent yet can send when c has room.
CheckerCanSend(t) == tasks[t] = "running" /\ Len(chan) < ChanCap

\* A checker goroutine: c <- ith.Accepts(tr).  The check reads the trace only
\* and is private to the task until the send, which waits for room in c.
Checker(t) ==
    /\ CheckerCanSend(t)
    /\ LET r == ConstraintAccepts(constraints[t], t, trace)
       IN  /\ chan' = Append(chan, r.err)
           /\ trace' = r.tr
    /\ tasks' = [tasks EXCEPT ![t] = "done"]
    /\ UNCHANGED <<evalVars, gadVars, constraints, batchsize, pc, iter, batch, n, i, err, received,
                   result, lowVars, expVars>>

\* processConstraintBatch: one round of the receive loop.
Receive ==
    /\ pc = "recv"
    /\ ReceiveGuard
    /\ chan # <<>>
    /\ err' = ReceiveErr(Head(chan))
    /\ received' = Append(received, Head(chan))
    /\ chan' = Tail(chan)
    /\ i' = i + 1
    /\ UNCHANGED <<evalVars, gadVars, trace, constraints, batchsize, pc, iter, batch, n, tasks, result,
                   lowVars, expVars>>

\* processConstraintBatch returns err, and Accepts returns it when it is a
\* failure.
BatchReturnFailure ==
    /\ pc = "recv"
    /\ ~ReceiveGuard
    /\ BatchFailed
    /\ pc' = "done"
    /\ result' = err
    /\ UNCHANGED <<evalVars, gadVars, trace, constraints, batchsize, iter, batch, n, i, err, chan, tasks,
                   received, lowVars, expVars>>

\* processConstraintBatch returns nil: batch++ and back to the loop test.  The
\* batch number, which the code only logs, is counted up to MaxBatches.
BatchReturnNil ==
    /\ pc = "recv"
    /\ ~ReceiveGuard
    /\ ~BatchFailed
    /\ pc' = "loop"
    /\ batch' = IF batch < MaxBatches THEN batch + 1 ELSE batch
    /\ UNCHANGED <<evalVars, gadVars, trace, constraints, batchsize, iter, n, i, err, chan, tasks,
                   received, result, lowVars, expVars>>

NextAccepts ==
    \/ AcceptsLoop
    \/ Launch
    \/ LaunchEnd
    \/ \E t \in DOMAIN tasks : Checker(t)
    \/ Receive
    \/ BatchReturnFailure
    \/ BatchReturnNil

(***************************************************************************)
(* The inputs of the acceptor.                                             *)
(***************************************************************************)
Column(data, padding) == [data |-> data, padding |-> padding]

\* Traces with a column X and a column T of three rows: T a sorted
\* permutation of X, a permutation that is not sorted, and no permutation.
SampleTraces ==
    { [c \in {"X", "T"} |-> IF c = "X" THEN Column(<<0, 2, 1>>, 0) ELSE Column(<<0, 1, 2>>, 0)],
      [c \in {"X", "T"} |-> IF c = "X" THEN Column(<<0, 1, 1>>, 0) ELSE Column(<<1, 0, 1>>, 0)],
      [c \in {"X", "T"} |-> IF c = "X" THEN Column(<<3, 0, 1>>, 0) ELSE Column(<<0, 1, 1>>, 0)] }

\* The constraints a sample schema is made of.
ConstraintPool ==
    { RangeConstraint("X", MCol("X", 0), 2),
      RangeConstraint("NX", MNorm(MCol("X", 0)), 1),
      RangeConstraint("X1", MAdd(<<MCol("X", 0), MConst(1)>>), 4),
      SortedPermutation(<<"T">>, <<TRUE>>, <<"X">>) }

\* The variables of the phases a specification does not run.
IdleLower ==
    /\ hexpr = MConst(0)
    /\ hcons = <<>>
    /\ mirSchema = <<>>
    /\ expanded = <<>>
    /\ lowered = <<>>
    /\ lpc = "idle"

IdleExpand ==
    /\ assignments = <<>>
    /\ epc = "idle"
    /\ j = 0
    /\ newCols = <<>>
    /\ computed = <<>>
    /\ run = 0
    /\ firstTrace = <<>>
    /\ eresult = Nil

IdleGadget == gadget = <<>> /\ gschema = <<>> /\ gpc = "idle"

IdleEval == mexpr = MConst(0) /\ mk = 0 /\ mval = 0 /\ mpc = "idle"

IdleAccepts ==
    /\ constraints = <<>>
    /\ batchsize = 0
    /\ pc = "idle"
    /\ iter = 1
    /\ batch = 0
    /\ n = 0
    /\ i = 0
    /\ err = Nil
    /\ chan = <<>>
    /\ tasks = <<>>
    /\ received = <<>>
    /\ result = Nil

\* The state in which Accepts is entered: iter := schema.Constraints(), batch := 0.
EnterAccepts ==
    /\ pc = "loop"
    /\ iter = 1
    /\ batch = 0
    /\ n = 0
    /\ i = 0
    /\ err = Nil
    /\ chan = <<>>
    /\ tasks = [t \in DOMAIN constraints |-> "idle"]
    /\ received = <<>>
    /\ result = Nil

Init ==
    /\ trace \in SampleTraces
    /\ \E len \in 0 .. MaxConstraints : constraints \in [1 .. len -> ConstraintPool]
    /\ batchsize \in 0 .. MaxConstraints
    /\ EnterAccepts
    /\ IdleLower
    /\ IdleExpand
    /\ IdleEval
    /\ IdleGadget

Next == NextAccepts

Spec == Init /\ [][Next]_vars

(***************************************************************************)
(* The acceptor on batches that do not fit the error channel.              *)
(***************************************************************************)
\* A schema of ChanCap + 1 range constraints, those at the positions F failing
\* on the first sample trace and the others holding on it.
BigSchema(F) ==
    [c \in 1 .. (ChanCap + 1) |->
        IF c \in F THEN RangeConstraint("X", MCol("X", 0), 2)
        ELSE RangeConstraint("X1", MAdd(<<MCol("X", 0), MConst(1)>>), 4)]

InitCap ==
    /\ trace = [c \in {"X", "T"} |-> IF c = "X" THEN Column(<<0, 2, 1>>, 0)
                                                ELSE Column(<<0, 1, 2>>, 0)]
    /\ constraints \in {BigSchema({}), BigSchema({1}), BigSchema({ChanCap + 1})}
    /\ batchsize = ChanCap + 1
    /\ EnterAccepts
    /\ IdleLower
    /\ IdleExpand
    /\ IdleEval
    /\ IdleGadget

SpecCap == InitCap /\ [][Next]_vars

(***************************************************************************)
(* Properties of the acceptor.                                             *)
(***************************************************************************)
\* What the constraint declared at position c answers on the trace.
Verdict(c) == ConstraintAccepts(constraints[c], c, trace).err

\* The positions of the constraints that reject the trace.
Failing == {c \in DOMAIN constraints : Verdict(c) # Nil}

\* The batch the constraint at position c is checked in (batchsize >= 1).
BatchOf(c) == (c - 1) \div batchsize

\* The non-nil values of a sequence of received values.
NonNil(s) == SelectSeq(s, LAMBDA e : e # Nil)

\* The tasks that are running (computing, or waiting to send).
Running == {t \in DOMAIN tasks : tasks[t] = "running"}

\* C1: for every batch size >= 1, once Accepts has returned, it returned no
\* error exactly when every constraint accepts the trace, and an error it
\* returned is the failure of a rejecting constraint of the earliest batch that
\* holds a rejecting constraint.
C1_AcceptsReturnsFailureOfEarliestBatch ==
    (pc = "done" /\ batchsize >= 1) =>
        /\ (result = Nil) <=> (Failing = {})
        /\ result # Nil =>
              \E c \in Failing :
                  /\ result = Verdict(c)
                  /\ \A d \in Failing : BatchOf(c) <= BatchOf(d)

\* Accepts has returned the failure of a second batch although the schema has
\* several rejecting constraints.
C1_Witness ==
    /\ pc = "done"
    /\ result # Nil
    /\ batch >= 1
    /\ Cardinality(Failing) >= 2

C3_LowestIndexFailureReturned ==
    (pc = "done" /\ result # Nil) => \A d \in Failing : result.c <= d

\* C4: tasks are launched in declaration order, one per constraint, in batches
\* of at most batchsize that follow the declaration order; a task that is
\* running, and every value in the channel, belongs to the current batch, so
\* at most batchsize tasks run at any moment and no task of the next batch
\* starts before all results of this one were received.
C4_BatchesRunOneAfterTheOther ==
    /\ {t \in DOMAIN tasks : tasks[t] # "idle"} = 1 .. (iter - 1)
    /\ n <= batchsize
    /\ Cardinality(Running) <= batchsize
    /\ pc \in {"launch", "recv"} =>
          /\ iter - n = batch * batchsize + 1
          /\ Running \subseteq (iter - n) .. (iter - 1)
          /\ Cardinality(Running) + Len(chan) + i = n
    /\ pc = "loop" => Running = {} /\ chan = <<>>

\* A task of a later batch is running while batches hold two tasks.
C4_Witness ==
    /\ batch >= 1
    /\ batchsize >= 2
    /\ Running # {}

\* C5: processConstraintBatch returns only after it has received one result
\* for every task it launched, also after a failure and also in a batch of
\* more tasks than the channel holds; no state short of Accepts' return is a
\* deadlock, and after the return no task is running or waiting to send.
C5_EveryResultReceived ==
    /\ (pc = "recv" /\ ~ReceiveGuard) =>
          /\ Len(received) = n
          /\ Running = {}
          /\ chan = <<>>
    /\ pc = "done" => Running = {} /\ chan = <<>>
    /\ (pc # "done" /\ batchsize >= 1) =>
          \/ ENABLED (AcceptsLoop \/ Launch \/ LaunchEnd \/ Receive
                         \/ BatchReturnFailure \/ BatchReturnNil)
          \/ \E t \in DOMAIN tasks : CheckerCanSend(t)

\* A batch of more tasks than the channel holds has ended with a failure.
C5_Witness ==
    /\ pc = "done"
    /\ result # Nil
    /\ n > ChanCap

\* C6: no step of the acceptor changes the trace: the set of columns, their
\* values and their padding stay what they were.
C6_AcceptanceLeavesTraceUnchanged == [][trace' = trace]_vars

\* Accepts has returned after range checks over a normalised column and a sum
\* and after a sorted-permutation check.
C6_Witness ==
    /\ pc = "done"
    /\ \E t \in DOMAIN tasks : tasks[t] = "done" /\ constraints[t].kind = "sorted"
    /\ \E t \in DOMAIN tasks :
          /\ tasks[t] = "done"
          /\ constraints[t].kind = "range"
          /\ constraints[t].expr.op = "norm"
    /\ \E t \in DOMAIN tasks :
          /\ tasks[t] = "done"
          /\ constraints[t].kind = "range"
          /\ constraints[t].expr.op = "add"

(***************************************************************************)
(* HIR expressions and their lowering to MIR (lowerTo): expand, then       *)
(* extractCondition and extractBody of every expanded expression.          *)
(***************************************************************************)
\* A nil Expr (an absent branch, a nil condition).
NilE == [op |-> "nil"]

\* The outcome of a panic during the lowering.
PanicE == [op |-> "panic"]

HCol(c, s) == [op |-> "Col", col |-> c, shift |-> s]

HConst(v) == [op |-> "Const", val |-> v]

HAdd(as) == [op |-> "Add", args |-> as]

HSub(as) == [op |-> "Sub", args |-> as]

HMul(as) == [op |-> "Mul", args |-> as]

HNorm(a) == [op |-> "Norm", arg |-> a]

HExp(a, pow) == [op |-> "Exp", arg |-> a, pow |-> pow]

HIfZero(c, tb, fb) == [op |-> "IfZero", cond |-> c, tb |-> tb, fb |-> fb]

HList(as) == [op |-> "List", args |-> as]

\* The mutant of FlattenArgs: nothing is spliced in.
FlattenArgsNested(op, nargs) == nargs

RECURSIVE FlattenArgs(_, _)

\* The constructors expand hands to expandWithNaryConstructor for Add and Mul:
\* the arguments of an argument of the same kind are spliced in.
FlattenArgs(op, nargs) ==
    IF nargs = <<>> THEN <<>>
    ELSE (IF Head(nargs).op = op THEN Head(nargs).args ELSE <<Head(nargs)>>)
             \o FlattenArgs(op, Tail(nargs))

NaryConstructor(op, nargs) ==
    IF op = "Sub" THEN HSub(nargs) ELSE [op |-> op, args |-> FlattenArgs(op, nargs)]

\* The mutant of IfZeroConstructor: the kept branch lands on the other side.
IfZeroConstructorSwapped(branch, c, b) ==
    IF branch = "true" THEN HIfZero(c, NilE, b) ELSE HIfZero(c, b, NilE)

\* The constructors expand hands to expandWithBinaryConstructor for IfZero.
IfZeroConstructor(branch, c, b) ==
    IF branch = "true" THEN HIfZero(c, b, NilE) ELSE HIfZero(c, NilE, b)

\* The expressions create(is[x], js[y]) for x, y in the order of the two loops.
BinaryProduct(is, js, branch) ==
    [z \in 1 .. (Len(is) * Len(js)) |->
        IfZeroConstructor(branch, is[((z - 1) \div Len(js)) + 1], js[((z - 1) % Len(js)) + 1])]

RECURSIVE expand(_)
RECURSIVE expandList(_)
RECURSIVE expandWithNaryConstructorHelper(_, _, _, _)
RECURSIVE expandNaryLoop(_, _, _, _, _, _)

\* The loop of expandWithNaryConstructorHelper over the expansions of args[idx].
expandNaryLoop(iths, x, idx, acc, args, op) ==
    IF x > Len(iths) THEN <<>>
    ELSE expandWithNaryConstructorHelper(idx + 1, Append(acc, iths[x]), args, op)
             \o expandNaryLoop(iths, x + 1, idx, acc, args, op)

\* acc holds the expansions chosen for the arguments before idx.
expandWithNaryConstructorHelper(idx, acc, args, op) ==
    IF idx > Len(args) THEN <<NaryConstructor(op, acc)>>
    ELSE expandNaryLoop(expand(args[idx]), 1, idx, acc, args, op)

expandWithNaryConstructor(args, op) == expandWithNaryConstructorHelper(1, <<>>, args, op)

expandWithBinaryConstructor(lhs, rhs, branch) == BinaryProduct(expand(lhs), expand(rhs), branch)

\* The List case of expand: the expansions of the elements, one after the other.
expandList(args) ==
    IF args = <<>> THEN <<>> ELSE expand(Head(args)) \o expandList(Tail(args))

expand(e) ==
    IF e.op \in {"Add", "Mul", "Sub"} THEN expandWithNaryConstructor(e.args, e.op)
    ELSE IF e.op \in {"Const", "Col"} THEN <<e>>
    ELSE IF e.op = "List" THEN expandList(e.args)
    ELSE IF e.op = "Exp"
         THEN LET ees == expand(e.arg) IN [x \in DOMAIN ees |-> HExp(ees[x], e.pow)]
    ELSE IF e.op = "Norm"
         THEN LET ees == expand(e.arg) IN [x \in DOMAIN ees |-> HNorm(ees[x])]
    ELSE IF e.op = "IfZero"
         THEN (IF e.tb # NilE THEN expandWithBinaryConstructor(e.cond, e.tb, "true") ELSE <<>>)
              \o (IF e.fb # NilE THEN expandWithBinaryConstructor(e.cond, e.fb, "false")
                  ELSE <<>>)
    ELSE <<PanicE>>

\* mul2: the product of two MIR expressions either of which may be nil; a
\* product operand is extended instead of nested.
mul2(lhs, rhs) ==
    IF lhs = PanicE \/ rhs = PanicE THEN PanicE
    ELSE IF lhs = NilE THEN rhs
    ELSE IF rhs = NilE THEN lhs
    ELSE IF lhs.op = "mul" /\ rhs.op = "mul" THEN MMul(lhs.args \o rhs.args)
    ELSE IF lhs.op = "mul" THEN MMul(Append(lhs.args, rhs))
    ELSE IF rhs.op = "mul" THEN MMul(Append(rhs.args, lhs))
    ELSE MMul(<<lhs, rhs>>)

mul3(lhs, mhs, rhs) == mul2(lhs, mul2(mhs, rhs))

\* The mutant of TrueBranchGuard: the condition is not normalised.
TrueBranchGuardNoNormalise(cb) == MSub(<<MConst(1), cb>>)

\* The guard of a kept true branch: 1 - NORM(cb).
TrueBranchGuard(cb) == MSub(<<MConst(1), MNorm(cb)>>)

RECURSIVE extractCondition(_)
RECURSIVE extractConditions(_)
RECURSIVE extractBody(_)

\* The bodies of a vector of expressions; a panic in one is a panic of all.
extractBodies(es) ==
    LET rs == [x \in DOMAIN es |-> extractBody(es[x])]
    IN  IF \E x \in DOMAIN rs : rs[x] = PanicE THEN PanicE ELSE rs

extractBody(e) ==
    IF e.op \in {"Add", "Mul", "Sub"}
    THEN LET rs == extractBodies(e.args)
         IN  IF rs = PanicE THEN PanicE
             ELSE IF e.op = "Add" THEN MAdd(rs)
             ELSE IF e.op = "Mul" THEN MMul(rs)
             ELSE MSub(rs)
    ELSE IF e.op = "Const" THEN MConst(e.val)
    ELSE IF e.op = "Col" THEN MCol(e.col, e.shift)
    ELSE IF e.op = "Exp"
         THEN LET b == extractBody(e.arg) IN IF b = PanicE THEN PanicE ELSE MExp(b, e.pow)
    ELSE IF e.op = "Norm"
         THEN LET b == extractBody(e.arg) IN IF b = PanicE THEN PanicE ELSE MNorm(b)
    ELSE IF e.op = "IfZero"
         THEN IF e.tb # NilE /\ e.fb # NilE THEN PanicE
              ELSE IF e.tb # NilE THEN extractBody(e.tb)
              ELSE IF e.fb # NilE THEN extractBody(e.fb)
              ELSE PanicE
    ELSE PanicE

extractIfZeroCondition(e) ==
    LET cc == extractCondition(e.cond)
        cb == extractBody(e.cond)
    IN  IF cc = PanicE \/ cb = PanicE THEN PanicE
        ELSE IF e.tb # NilE /\ e.fb # NilE THEN PanicE
        ELSE IF e.tb # NilE THEN mul3(cc, TrueBranchGuard(cb), extractCondition(e.tb))
        ELSE IF e.fb # NilE THEN mul3(cc, cb, extractCondition(e.fb))
        ELSE PanicE

extractConditions(es) ==
    IF es = <<>> THEN NilE
    ELSE mul2(extractConditions(SubSeq(es, 1, Len(es) - 1)), extractCondition(es[Len(es)]))

extractCondition(e) ==
    IF e.op \in {"Add", "Mul", "Sub"} THEN extractConditions(e.args)
    ELSE IF e.op \in {"Const", "Col"} THEN NilE
    ELSE IF e.op \in {"Norm", "Exp"} THEN extractCondition(e.arg)
    ELSE IF e.op = "IfZero" THEN extractIfZeroCondition(e)
    ELSE PanicE

\* The body of lowerTo's loop: mes[i] = mul2(c, b).
LowerExpanded(e) == mul2(extractCondition(e), extractBody(e))

\* lowerTo: first expand the expression.
LowerExpand ==
    /\ lpc = "expand"
    /\ expanded' = expand(hexpr)
    /\ lowered' = <<>>
    /\ lpc' = "extract"
    /\ UNCHANGED <<evalVars, gadVars, trace, hexpr, hcons, mirSchema, accVars, expVars>>

\* lowerTo: one round of the loop over the expanded expressions.
LowerExtract ==
    /\ lpc = "extract"
    /\ Len(lowered) < Len(expanded)
    /\ lowered' = Append(lowered, LowerExpanded(expanded[Len(lowered) + 1]))
    /\ UNCHANGED <<evalVars, gadVars, trace, hexpr, hcons, mirSchema, expanded, lpc, accVars, expVars>>

\* lowerTo returns mes.
LowerReturn ==
    /\ lpc = "extract"
    /\ Len(lowered) = Len(expanded)
    /\ lpc' = "done"
    /\ UNCHANGED <<evalVars, gadVars, trace, hexpr, hcons, mirSchema, expanded, lowered,
                   accVars, expVars>>

\* The mutant of LoweredConstraint: the handle is lost.
LoweredConstraintUnnamed(c, mir_expr) ==
    IF c.kind = "vanishing"
    THEN [constraint |-> VanishingConstraint("", mir_expr),
          context |-> c.context, domain |-> c.domain]
    ELSE [constraint |-> RangeConstraint("", mir_expr, c.bound),
          context |-> c.context, domain |-> NilE]

\* What lowerConstraintToMir adds to the MIR schema for one lowered
\* expression of the HIR constraint c: a vanishing constraint with c's handle,
\* context and domain, or a range constraint with c's handle, context and bound.
LoweredConstraint(c, mir_expr) ==
    IF c.kind = "vanishing"
    THEN [constraint |-> VanishingConstraint(c.handle, mir_expr),
          context |-> c.context, domain |-> c.domain]
    ELSE [constraint |-> RangeConstraint(c.handle, mir_expr, c.bound),
          context |-> c.context, domain |-> NilE]

\* lowerTo has crashed on one of the expanded expressions.
LowerPanicked == \E x \in DOMAIN lowered : lowered[x] = PanicE

\* lowerConstraintToMir: one round of the loop over mir_exprs.
LowerConstraintAdd ==
    /\ lpc = "done"
    /\ ~LowerPanicked
    /\ Len(mirSchema) < Len(lowered)
    /\ mirSchema' = Append(mirSchema, LoweredConstraint(hcons, lowered[Len(mirSchema) + 1]))
    /\ UNCHANGED <<evalVars, gadVars, trace, hexpr, hcons, expanded, lowered, lpc,
                   accVars, expVars>>

\* lowerConstraintToMir returns.
LowerConstraintReturn ==
    /\ lpc = "done"
    /\ ~LowerPanicked
    /\ Len(mirSchema) = Len(lowered)
    /\ lpc' = "added"
    /\ UNCHANGED <<evalVars, gadVars, trace, hexpr, hcons, mirSchema, expanded, lowered,
                   accVars, expVars>>

NextLower ==
    \/ LowerExpand
    \/ LowerExtract
    \/ LowerReturn
    \/ LowerConstraintAdd
    \/ LowerConstraintReturn

(***************************************************************************)
(* The evaluation of HIR expressions and the HIR vanishing test.           *)
(***************************************************************************)
RECURSIVE FoldLeft(_, _, _)

\* acc op vals[1] op vals[2] ..., from the left.
FoldLeft(op, acc, vals) ==
    IF vals = <<>> THEN acc ELSE FoldLeft(op, Combine(op, acc, Head(vals)), Tail(vals))

RECURSIVE HirEvalAt(_, _, _)

\* The value of an HIR expression without lists on row k: an IfZero is its
\* true branch where the condition is zero and its false branch elsewhere, an
\* absent branch being the constant zero.
HirEvalAt(e, k, tr) ==
    IF e.op = "nil" THEN 0
    ELSE IF e.op = "Const" THEN e.val
    ELSE IF e.op = "Col" THEN GetByName(tr, e.col, k + e.shift)
    ELSE IF e.op = "Add" THEN
        LET vs == [x \in DOMAIN e.args |-> HirEvalAt(e.args[x], k, tr)]
        IN  FoldLeft("add", Head(vs), Tail(vs))
    ELSE IF e.op = "Sub" THEN
        LET vs == [x \in DOMAIN e.args |-> HirEvalAt(e.args[x], k, tr)]
        IN  FoldLeft("sub", Head(vs), Tail(vs))
    ELSE IF e.op = "Mul" THEN
        LET vs == [x \in DOMAIN e.args |-> HirEvalAt(e.args[x], k, tr)]
        IN  FoldLeft("mul", Head(vs), Tail(vs))
    ELSE IF e.op = "Norm" THEN (IF HirEvalAt(e.arg, k, tr) = 0 THEN 0 ELSE 1)
    ELSE IF e.op = "Exp" THEN FPow(HirEvalAt(e.arg, k, tr), e.pow)
    ELSE IF HirEvalAt(e.cond, k, tr) = 0 THEN HirEvalAt(e.tb, k, tr)
    ELSE HirEvalAt(e.fb, k, tr)

RECURSIVE HirEvalAllAt(_, _, _)

\* The values of an expression on row k: a list yields those of its elements.
HirEvalAllAt(e, k, tr) ==
    IF e.op = "List"
    THEN IF e.args = <<>> THEN <<>>
         ELSE HirEvalAllAt(Head(e.args), k, tr) \o HirEvalAllAt(HList(Tail(e.args)), k, tr)
    ELSE <<HirEvalAt(e, k, tr)>>

\* ZeroArrayTest.TestAt: every value is zero (an undefined one is taken to hold).
TestAt(e, k, tr) ==
    LET vals == HirEvalAllAt(e, k, tr)
    IN  \A x \in DOMAIN vals : ~(vals[x] # Undef /\ vals[x] # 0)

(***************************************************************************)
(* The inputs of the lowering.                                             *)
(***************************************************************************)
\* The largest value of a column of the traces the lowering is evaluated on.
MaxVal == 2

\* Traces of one row over the columns X and Y.
LowerTraces ==
    { [c \in {"X", "Y"} |-> Column(<<IF c = "X" THEN x ELSE y>>, 0)] :
        x \in 0 .. MaxVal, y \in 0 .. MaxVal }

HLeaves == {HCol("X", 0), HCol("Y", 0), HConst(1)}

\* The conditionals over leaves: a true branch, a false branch or both.
HIfZeroLeaves ==
    {HIfZero(c, t, NilE) : c \in HLeaves, t \in HLeaves}
        \cup {HIfZero(c, NilE, f) : c \in HLeaves, f \in HLeaves}
        \cup {HIfZero(c, t, f) : c \in HLeaves \ {HConst(1)}, t \in HLeaves, f \in HLeaves}

\* The expressions of one operator over leaves.
HLevel1 ==
    HLeaves
        \cup {[op |-> o, args |-> <<a, b>>] : o \in {"Add", "Sub", "Mul"}, a \in HLeaves, b \in HLeaves}
        \cup {HNorm(a) : a \in HLeaves}
        \cup HIfZeroLeaves

\* The expressions of an operator over an expression of HLevel1 and a leaf.
HLevel2 ==
    {[op |-> o, args |-> <<a, b>>] : o \in {"Add", "Sub", "Mul"}, a \in HLevel1, b \in HLeaves}
        \cup {[op |-> o, args |-> <<b, a>>] : o \in {"Add", "Sub", "Mul"}, a \in HIfZeroLeaves,
                                              b \in {HCol("Y", 0)}}
        \cup {HNorm(a) : a \in HLevel1}
        \cup {HIfZero(a, t, NilE) : a \in HLevel1, t \in {HCol("Y", 0), HConst(1)}}
        \cup {HIfZero(a, NilE, f) : a \in HLevel1, f \in {HCol("Y", 0), HConst(1)}}
        \cup {HList(<<a, b>>) : a \in HLevel1, b \in {HCol("Y", 0)}}

HExprs == HLevel1 \cup HLevel2

\* An HIR vanishing constraint on all rows and an HIR range constraint.
HConstraints ==
    { [kind |-> "vanishing", handle |-> "v", context |-> "m", domain |-> NilE, bound |-> 0],
      [kind |-> "vanishing", handle |-> "w", context |-> "m", domain |-> 0, bound |-> 0],
      [kind |-> "range", handle |-> "r", context |-> "m", domain |-> NilE, bound |-> 4] }

InitLower ==
    /\ trace \in LowerTraces
    /\ hexpr \in HExprs
    /\ hcons = [kind |-> "vanishing", handle |-> "v", context |-> "m", domain |-> NilE,
                bound |-> 0]
    /\ mirSchema = <<>>
    /\ expanded = <<>>
    /\ lowered = <<>>
    /\ lpc = "expand"
    /\ IdleAccepts
    /\ IdleExpand
    /\ IdleEval
    /\ IdleGadget

SpecLower == InitLower /\ [][NextLower]_vars

(***************************************************************************)
(* Properties of the lowering.                                             *)
(***************************************************************************)
\* The value of an MIR expression on row 0 of the trace.
MirVal(m) == EvalAt(m, 0, trace).val

\* The value of an HIR expression on row 0 of the trace.
HirVal(e) == HirEvalAt(e, 0, trace)

RECURSIVE HasIfZero(_)

\* Whether an expression holds an IfZero or a List.
HasIfZero(e) ==
    IF e.op \in {"IfZero", "List"} THEN TRUE
    ELSE IF e.op \in {"Add", "Sub", "Mul"} THEN \E x \in DOMAIN e.args : HasIfZero(e.args[x])
    ELSE IF e.op \in {"Norm", "Exp"} THEN HasIfZero(e.arg)
    ELSE FALSE

\* C7 as claimed: the MIR constraints lowered from an HIR vanishing constraint
\* all evaluate to zero on a row exactly when the HIR constraint holds on it.
C7_LoweredVanishesIffHirHolds ==
    lpc = "done" =>
        ((\A x \in DOMAIN lowered : MirVal(lowered[x]) = 0) <=> TestAt(hexpr, 0, trace))

RECURSIVE KeptVal(_)

\* The value on row 0 of an HIR expression in which every IfZero stands for
\* the one branch it has.
KeptVal(e) ==
    IF e.op = "Const" THEN e.val
    ELSE IF e.op = "Col" THEN GetByName(trace, e.col, e.shift)
    ELSE IF e.op \in {"Add", "Sub", "Mul"} THEN
        LET vs == [x \in DOMAIN e.args |-> KeptVal(e.args[x])]
        IN  FoldLeft(IF e.op = "Add" THEN "add" ELSE IF e.op = "Sub" THEN "sub" ELSE "mul",
                     Head(vs), Tail(vs))
    ELSE IF e.op = "Norm" THEN (IF KeptVal(e.arg) = 0 THEN 0 ELSE 1)
    ELSE IF e.tb # NilE THEN KeptVal(e.tb)
    ELSE KeptVal(e.fb)

RECURSIVE GuardVal(_)

\* The product on row 0 of the guards of the IfZero's of an HIR expression:
\* 1 - Normalise(condition) for a true branch, the condition for a false one.
GuardVal(e) ==
    IF e.op \in {"Const", "Col"} THEN 1
    ELSE IF e.op \in {"Add", "Sub", "Mul"} THEN
        FoldLeft("mul", 1, [x \in DOMAIN e.args |-> GuardVal(e.args[x])])
    ELSE IF e.op = "Norm" THEN GuardVal(e.arg)
    ELSE IF e.tb # NilE
         THEN FMul(GuardVal(e.cond),
                   FMul(FSub(1, IF KeptVal(e.cond) = 0 THEN 0 ELSE 1), GuardVal(e.tb)))
    ELSE FMul(GuardVal(e.cond), FMul(KeptVal(e.cond), GuardVal(e.fb)))

LeafToMir(l) == IF l.op = "Const" THEN MConst(l.val) ELSE MCol(l.col, l.shift)

\* C9: IfZero(C, T, E) over leaves lowers to exactly (1 - Normalise(C)) * T and
\* C * E; where C is zero the second is zero and the first is zero exactly
\* when T is, and where C is not zero the first is zero and the second is zero
\* exactly when E is.
C9_IfZeroLowersToTwoGuardedProducts ==
    (/\ lpc = "done"
     /\ hexpr.op = "IfZero"
     /\ hexpr.cond \in HLeaves
     /\ hexpr.tb \in HLeaves
     /\ hexpr.fb \in HLeaves) =>
        /\ lowered = << MMul(<<MSub(<<MConst(1), MNorm(LeafToMir(hexpr.cond))>>),
                               LeafToMir(hexpr.tb)>>),
                        MMul(<<LeafToMir(hexpr.cond), LeafToMir(hexpr.fb)>>) >>
        /\ HirVal(hexpr.cond) = 0 =>
              /\ MirVal(lowered[2]) = 0
              /\ (MirVal(lowered[1]) = 0) <=> (HirVal(hexpr.tb) = 0)
        /\ HirVal(hexpr.cond) # 0 =>
              /\ MirVal(lowered[1]) = 0
              /\ (MirVal(lowered[2]) = 0) <=> (HirVal(hexpr.fb) = 0)

\* IfZero(X, Y, 1) has been lowered and evaluated on a row where X is not
\* zero and Y is not zero.
C9_Witness ==
    /\ lpc = "done"
    /\ hexpr = HIfZero(HCol("X", 0), HCol("Y", 0), HConst(1))
    /\ HirVal(hexpr.cond) = 2
    /\ HirVal(hexpr.tb) = 1
    /\ Len(lowered) = 2

(***************************************************************************)
(* Trace expansion: ExpandTrace computes the schema's assignments one      *)
(* after the other and adds the columns of each to the trace.              *)
(***************************************************************************)
\* A computed column: its name and the expression that defines it.
ComputedColumn(name, expr) == [kind |-> "computed", targets |-> <<name>>, expr |-> expr]

\* A lexicographic sort: targets[1] is the delta column, the others are the
\* selector columns of the sources (NewLexicographicSort names them).
LexicographicSort(targets, sources, signs) ==
    [kind |-> "lexsort", targets |-> targets, sources |-> sources, signs |-> signs]

\* The columns an assignment declares.
Columns(a) == {a.targets[x] : x \in DOMAIN a.targets}

RECURSIVE ComputedColumnRows(_, _, _, _)

\* ComputedColumn.ExpandTrace's loop from row k on: the value of the
\* expression on every row, zero where it has none.
ComputedColumnRows(c, k, data, tr) ==
    IF k >= Height(tr) THEN [data |-> data, panic |-> FALSE, tr |-> tr]
    ELSE LET val == EvalAt(c.expr, k, tr)
         IN  IF val.val = Panic THEN [data |-> data, panic |-> TRUE, tr |-> val.tr]
             ELSE ComputedColumnRows(c, k + 1,
                      Append(data, IF val.val # Undef THEN val.val ELSE 0), val.tr)

\* ComputedColumn.ExpandTrace: an error if the column exists, else the column
\* of the expression's values, padded with its value on row -1.
ComputedColumnExpandTrace(c, a, tr) ==
    IF HasColumn(tr, c.targets[1])
    THEN [cols |-> <<>>, err |-> Failure("exists", a, c.targets[1], 0), tr |-> tr]
    ELSE LET rows == ComputedColumnRows(c, 0, <<>>, tr)
             padding == EvalAt(c.expr, -1, rows.tr)
         IN  IF rows.panic \/ padding.val = Panic
             THEN [cols |-> <<>>, err |-> Failure("panic", a, c.targets[1], 0), tr |-> rows.tr]
             ELSE [cols |-> <<[name |-> c.targets[1],
                               col |-> Column(rows.data, padding.val)]>>,
                   err |-> Nil, tr |-> padding.tr]

\* The mutant of LexWinner: the first row has no winner.
LexWinnerAfterFirstRow(p, k, tr) ==
    LET Differs(x) == GetByName(tr, p.sources[x], k - 1) # GetByName(tr, p.sources[x], k)
    IN  IF k = 0 THEN 0 ELSE FirstIndex([x \in DOMAIN p.sources |-> x], Differs)

\* The first source whose value on row k differs from its value on the row
\* before (the row before the first is the padding), 0 for none.
LexWinner(p, k, tr) ==
    LET Differs(x) == GetByName(tr, p.sources[x], k - 1) # GetByName(tr, p.sources[x], k)
    IN  FirstIndex([x \in DOMAIN p.sources |-> x], Differs)

\* The mutant of LexDelta: curr - prev of the winner, whatever its sign.
LexDeltaAscending(p, k, tr) ==
    LET w == LexWinner(p, k, tr)
    IN  IF w = 0 THEN 0
        ELSE FSub(GetByName(tr, p.sources[w], k), GetByName(tr, p.sources[w], k - 1))

\* The delta of row k: curr - prev of the winner for a positive sign,
\* prev - curr for a negative one, zero without a winner.
LexDelta(p, k, tr) ==
    LET w == LexWinner(p, k, tr)
    IN  IF w = 0 THEN 0
        ELSE LET prev == GetByName(tr, p.sources[w], k - 1)
                 curr == GetByName(tr, p.sources[w], k)
             IN  IF p.signs[w] THEN FSub(curr, prev) ELSE FSub(prev, curr)

\* The mutant of LexicographicSortComputeColumns: the selector of every source
\* that differs from the row before is set, not only the first one's.
LexicographicSortComputeColumnsAllSet(p, a, tr) ==
    LET nrows == Height(tr)
        delta == [r \in 1 .. nrows |-> LexDelta(p, r - 1, tr)]
        Bit(x) == [r \in 1 .. nrows |->
                      IF GetByName(tr, p.sources[x], r - 2) # GetByName(tr, p.sources[x], r - 1)
                      THEN 1 ELSE 0]
    IN  IF \E x \in DOMAIN p.sources : ~HasColumn(tr, p.sources[x])
        THEN [cols |-> <<>>, err |-> Failure("panic", a, p.targets[1], 0), tr |-> tr]
        ELSE [cols |-> [x \in DOMAIN p.targets |->
                           [name |-> p.targets[x],
                            col |-> Column(IF x = 1 THEN delta ELSE Bit(x - 1), 0)]],
              err |-> Nil, tr |-> tr]

\* LexicographicSort.ComputeColumns: the delta column and one selector column
\* per source, all padded with zero.
LexicographicSortComputeColumns(p, a, tr) ==
    LET nrows == Height(tr)
        delta == [r \in 1 .. nrows |-> LexDelta(p, r - 1, tr)]
        Bit(x) == [r \in 1 .. nrows |-> IF LexWinner(p, r - 1, tr) = x THEN 1 ELSE 0]
    IN  IF \E x \in DOMAIN p.sources : ~HasColumn(tr, p.sources[x])
        THEN [cols |-> <<>>, err |-> Failure("panic", a, p.targets[1], 0), tr |-> tr]
        ELSE [cols |-> [x \in DOMAIN p.targets |->
                           [name |-> p.targets[x],
                            col |-> Column(IF x = 1 THEN delta ELSE Bit(x - 1), 0)]],
              err |-> Nil, tr |-> tr]

\* Row r1 of the columns comes strictly before row r2 in the lexicographic
\* order the signs give (TRUE: ascending).
RowBefore(cs, signs, r1, r2) ==
    \E x \in DOMAIN cs :
        /\ \A y \in 1 .. (x - 1) : cs[y][r1] = cs[y][r2]
        /\ IF signs[x] THEN cs[x][r1] < cs[x][r2] ELSE cs[x][r1] > cs[x][r2]

\* util.PermutationSort: the rows of the columns, sorted in that order (rows
\* that agree on every column keep their order).
PermutationSort(cs, signs) ==
    LET rows == DOMAIN cs[1]
        Rank(r) == Cardinality({q \in rows :
                        \/ RowBefore(cs, signs, q, r)
                        \/ (q < r /\ ~RowBefore(cs, signs, r, q))}) + 1
    IN  [x \in DOMAIN cs |-> [pos \in rows |-> cs[x][CHOOSE r \in rows : Rank(r) = pos]]]

\* The mutant of SortedPermutationExpandTrace: the targets are padded with zero.
SortedPermutationExpandTraceZeroPadded(p, a, tr) ==
    IF (\E x \in DOMAIN p.targets : HasColumn(tr, p.targets[x]))
           \/ (\E x \in DOMAIN p.sources : ~HasColumn(tr, p.sources[x]))
    THEN [cols |-> <<>>, err |-> Failure("panic", a, p.targets[1], 0), tr |-> tr]
    ELSE LET sorted == PermutationSort([x \in DOMAIN p.sources |-> tr[p.sources[x]].data],
                                       p.signs)
         IN  [cols |-> [x \in DOMAIN p.targets |->
                           [name |-> p.targets[x], col |-> Column(sorted[x], 0)]],
              err |-> Nil, tr |-> tr]

\* SortedPermutation.ExpandTrace: a panic if a target column exists, else the
\* source columns, sorted, each with the padding of its source.
SortedPermutationExpandTrace(p, a, tr) ==
    LET Exists(col) == HasColumn(tr, col)
        Missing(col) == ~HasColumn(tr, col)
    IN  IF \E x \in DOMAIN p.targets : Exists(p.targets[x])
        THEN [cols |-> <<>>, err |-> Failure("panic", a, p.targets[1], 0), tr |-> tr]
        ELSE IF \E x \in DOMAIN p.sources : Missing(p.sources[x])
        THEN [cols |-> <<>>, err |-> Failure("panic", a, p.targets[1], 0), tr |-> tr]
        ELSE LET sorted == PermutationSort([x \in DOMAIN p.sources |-> tr[p.sources[x]].data],
                                           p.signs)
             IN  [cols |-> [x \in DOMAIN p.targets |->
                               [name |-> p.targets[x],
                                col |-> Column(sorted[x], tr[p.sources[x]].padding)]],
                  err |-> Nil, tr |-> tr]

\* The name of the ith byte column of a column: fmt.Sprintf("%s:%d", col, i).
ByteColumnName(col, x) == col \o ":" \o ToString(x)

\* table.NewByteDecomposition(col, nbits)
ByteDecomposition(col, nbits) ==
    [kind |-> "bytes", source |-> col, nbits |-> nbits, sources |-> <<col>>,
     targets |-> [x \in 1 .. (nbits \div 8) |-> ByteColumnName(col, x - 1)]]

RECURSIVE Pow256(_)

\* 256^x
Pow256(x) == IF x = 0 THEN 1 ELSE 256 * Pow256(x - 1)

\* The mutant of ByteOf: every byte column holds the lowest byte.
ByteOfLowest(v, x) == v % 256

\* Byte x of a value: (v >> 8x) & 0xFF.
ByteOf(v, x) == (v \div Pow256(x)) % 256

\* The expansion of a byte decomposition: byte x - 1 of every value of the
\* source fills the xth byte column.
ByteDecompositionExpandTrace(p, a, tr) ==
    IF ~HasColumn(tr, p.source)
    THEN [cols |-> <<>>, err |-> Failure("panic", a, p.source, 0), tr |-> tr]
    ELSE [cols |-> [x \in DOMAIN p.targets |->
                       [name |-> p.targets[x],
                        col |-> Column([r \in DOMAIN tr[p.source].data |->
                                           ByteOf(tr[p.source].data[r], x - 1)],
                                       ByteOf(tr[p.source].padding, x - 1))]],
          err |-> Nil, tr |-> tr]

\* ith.ComputeColumns(trace) of the assignment declared at position a.
ComputeColumns(ith, a, tr) ==
    IF ith.kind = "computed" THEN ComputedColumnExpandTrace(ith, a, tr)
    ELSE IF ith.kind = "bytes" THEN ByteDecompositionExpandTrace(ith, a, tr)
    ELSE IF ith.kind = "sorted" THEN SortedPermutationExpandTrace(ith, a, tr)
    ELSE LexicographicSortComputeColumns(ith, a, tr)

\* The mutant of AddColumns: the columns are not added.
AddColumnsNothing(tr, cs) == tr

\* The loop over cols: trace.Columns().Add(...) of every column returned.
AddColumns(tr, cs) ==
    [c \in DOMAIN tr \cup {cs[x].name : x \in DOMAIN cs} |->
        IF \E x \in DOMAIN cs : cs[x].name = c
        THEN cs[CHOOSE x \in DOMAIN cs : cs[x].name = c].col
        ELSE tr[c]]

\* ExpandTrace: the next assignment is computed; an error is returned.
ExpandCompute ==
    /\ epc = "loop"
    /\ j < Len(assignments)
    /\ LET r == ComputeColumns(assignments[j + 1], j + 1, trace)
       IN  /\ computed' = Append(computed, [a |-> j + 1, seen |-> trace, err |-> r.err])
           /\ trace' = r.tr
           /\ IF r.err # Nil
              THEN /\ eresult' = r.err
                   /\ epc' = "done"
                   /\ newCols' = newCols
              ELSE /\ newCols' = r.cols
                   /\ epc' = "add"
                   /\ eresult' = eresult
    /\ UNCHANGED <<evalVars, gadVars, assignments, j, run, firstTrace, accVars, lowVars>>

\* ExpandTrace: the columns of the assignment just computed are added.
ExpandAdd ==
    /\ epc = "add"
    /\ trace' = AddColumns(trace, newCols)
    /\ newCols' = <<>>
    /\ j' = j + 1
    /\ epc' = "loop"
    /\ UNCHANGED <<evalVars, gadVars, assignments, computed, run, firstTrace, eresult, accVars, lowVars>>

\* ExpandTrace: no assignment is left, nil is returned.
ExpandReturn ==
    /\ epc = "loop"
    /\ j = Len(assignments)
    /\ eresult' = Nil
    /\ epc' = "done"
    /\ UNCHANGED <<evalVars, gadVars, trace, assignments, j, newCols, computed, run, firstTrace, accVars, lowVars>>

NextExpand == ExpandCompute \/ ExpandAdd \/ ExpandReturn

(***************************************************************************)
(* The inputs of the expansion.                                            *)
(***************************************************************************)
\* The longest list of assignments of a schema handed to ExpandTrace.
MaxAssignments == 3

\* The input columns of the schemas.
InputColumns == {"X", "Y"}

\* Traces of two rows over the input columns, and the traces of three rows
\* X = <<1, 1, 2>>, Y = <<5, 7, 1>> padded with zero and one, or with the
\* values of their first row.
ExpandTraces ==
    { [c \in InputColumns |-> IF c = "X" THEN Column(x, 0) ELSE Column(y, 1)] :
        x \in {<<0, 1>>, <<1, 1>>, <<2, 0>>}, y \in {<<0, 0>>, <<1, 2>>} }
    \cup { [c \in InputColumns |->
               IF c = "X" THEN Column(<<1, 1, 2>>, pad[1]) ELSE Column(<<5, 7, 1>>, pad[2])] :
             pad \in {<<0, 1>>, <<1, 5>>} }

\* The assignments a sample schema is made of: A is declared three times, B
\* reads A, N dereferences A, X is an input column.
AssignmentPool ==
    { ComputedColumn("A", MAdd(<<MCol("X", 0), MConst(1)>>)),
      ComputedColumn("A", MCol("Y", -1)),
      ComputedColumn("B", MAdd(<<MCol("A", 0), MCol("Y", 0)>>)),
      ComputedColumn("N", MNorm(MCol("A", 0))),
      ComputedColumn("X", MConst(0)),
      LexicographicSort(<<"D", "S0", "S1">>, <<"X", "Y">>, <<TRUE, FALSE>>),
      LexicographicSort(<<"E", "T0", "T1">>, <<"X", "Y">>, <<TRUE, TRUE>>),
      SortedPermutation(<<"P", "Q">>, <<TRUE, FALSE>>, <<"X", "Y">>),
      SortedPermutation(<<"A">>, <<FALSE>>, <<"Y">>) }

\* The lists of distinct assignments of the pool.
AssignmentLists ==
    UNION { {s \in [1 .. len -> AssignmentPool] :
                \A x, y \in 1 .. len : x # y => s[x] # s[y]} : len \in 0 .. MaxAssignments }

InitExpand ==
    /\ trace \in ExpandTraces
    /\ assignments \in AssignmentLists
    /\ epc = "loop"
    /\ j = 0
    /\ newCols = <<>>
    /\ computed = <<>>
    /\ run = 1
    /\ firstTrace = <<>>
    /\ eresult = Nil
    /\ IdleAccepts
    /\ IdleLower
    /\ IdleEval
    /\ IdleGadget

SpecExpand == InitExpand /\ [][NextExpand]_vars

\* ExpandTrace is called again, on the trace a first call has expanded.
ExpandAgain ==
    /\ epc = "done"
    /\ eresult = Nil
    /\ run = 1
    /\ run' = 2
    /\ firstTrace' = trace
    /\ epc' = "loop"
    /\ j' = 0
    /\ newCols' = <<>>
    /\ computed' = <<>>
    /\ UNCHANGED <<evalVars, gadVars, trace, assignments, eresult, accVars, lowVars>>

NextExpandTwice == NextExpand \/ ExpandAgain

SpecExpandTwice == InitExpand /\ [][NextExpandTwice]_vars

(***************************************************************************)
(* Properties of the expansion.                                            *)
(***************************************************************************)
\* The columns of the input and of the assignments declared before position a.
ColumnsBefore(a) == InputColumns \cup UNION {Columns(assignments[y]) : y \in 1 .. (a - 1)}

\* The trace without the columns outside S.
Restrict(tr, S) == [c \in DOMAIN tr \cap S |-> tr[c]]

\* C10: the assignments are computed one at a time in declaration order; an
\* assignment is computed on a trace that holds the input columns and the
\* columns of every assignment declared before it, and no other; the columns
\* it returns are the ones computed from that trace; once a computation has
\* returned an error, ExpandTrace returns that error and no later assignment
\* is computed; without an error all assignments are computed.
C10_AssignmentsComputedInDeclarationOrder ==
    /\ \A x \in DOMAIN computed :
          /\ computed[x].a = x
          /\ DOMAIN computed[x].seen = ColumnsBefore(x)
          /\ computed[x].err = ComputeColumns(assignments[x], x, Restrict(trace, ColumnsBefore(x))).err
          /\ (computed[x].err = Nil /\ x <= j) =>
                LET r == ComputeColumns(assignments[x], x, Restrict(trace, ColumnsBefore(x)))
                IN  \A y \in DOMAIN r.cols :
                       /\ HasColumn(trace, r.cols[y].name)
                       /\ trace[r.cols[y].name] = r.cols[y].col
          /\ computed[x].err # Nil =>
                /\ x = Len(computed)
                /\ epc = "done"
                /\ eresult = computed[x].err
    /\ Len(computed) \in {j, j + 1}
    /\ (epc = "done" /\ eresult = Nil) => Len(computed) = Len(assignments)
    /\ (epc = "done" /\ eresult # Nil) => computed[Len(computed)].err = eresult

\* ExpandTrace has returned an error of the second of three assignments, whose
\* computation saw the column of the first.
C10_Witness ==
    /\ epc = "done"
    /\ Len(assignments) = 3
    /\ Len(computed) = 2
    /\ eresult.kind = "exists"
    /\ "A" \in DOMAIN computed[2].seen
    /\ computed[1].err = Nil

RECURSIVE ColumnsOf(_)

\* The columns an MIR expression reads.
ColumnsOf(e) ==
    IF e.op = "col" THEN {e.col}
    ELSE IF e.op = "const" THEN {}
    ELSE IF e.op \in {"norm", "exp", "inv"} THEN ColumnsOf(e.arg)
    ELSE UNION {ColumnsOf(e.args[x]) : x \in DOMAIN e.args}

\* The columns an assignment depends upon.
Dependencies(a) ==
    IF a.kind = "computed" THEN ColumnsOf(a.expr)
    ELSE {a.sources[x] : x \in DOMAIN a.sources}

\* C11 as claimed: an assignment one of whose columns exists in the trace it
\* is computed on, or one of whose dependencies is missing from it, makes
\* ExpandTrace return an error (no panic) and adds no column.
C11_DuplicateOrMissingIsAnError ==
    \A x \in DOMAIN computed :
        (\/ Columns(assignments[x]) \cap DOMAIN computed[x].seen # {}
         \/ ~(Dependencies(assignments[x]) \subseteq DOMAIN computed[x].seen)) =>
            /\ computed[x].err # Nil
            /\ computed[x].err.kind # "panic"
            /\ epc = "done"
            /\ eresult = computed[x].err
            /\ DOMAIN trace = DOMAIN computed[x].seen

\* C12 as claimed: a second run of ExpandTrace on the trace the first run
\* expanded succeeds and leaves the trace as the first run left it.
C12_SecondExpansionChangesNothing ==
    (run = 2 /\ epc = "done") => (eresult = Nil /\ trace = firstTrace)

(***************************************************************************)
(* The evaluation of one MIR expression on one row of a trace.             *)
(***************************************************************************)
\* expr.EvalAt(k, tbl)
Evaluate ==
    /\ mpc = "eval"
    /\ LET r == EvalAt(mexpr, mk, trace)
       IN  /\ mval' = r.val
           /\ trace' = r.tr
    /\ mpc' = "done"
    /\ UNCHANGED <<mexpr, mk, gadVars, accVars, lowVars, expVars>>

NextEval == Evaluate

\* The largest shift of a column access of the expressions evaluated, and the
\* number of rows before and after the trace EvalAt is called on.
MaxShift == 1

\* The accesses of the input column X, of the column A the traces lack, and a
\* constant.
MLeaves ==
    {MCol("X", sh) : sh \in (0 - MaxShift) .. MaxShift} \cup {MCol("A", 0), MConst(2)}

\* The expressions of one operator over leaves.
MExprs ==
    MLeaves
        \cup {[op |-> o, args |-> <<a, b>>] : o \in {"add", "sub", "mul"}, a \in MLeaves, b \in MLeaves}
        \cup {MNorm(a) : a \in MLeaves}
        \cup {MInv(a) : a \in MLeaves}

InitEval ==
    /\ trace \in ExpandTraces
    /\ mexpr \in MExprs
    /\ mk \in (0 - MaxShift) .. (2 + MaxShift - 1)
    /\ mval = 0
    /\ mpc = "eval"
    /\ IdleGadget
    /\ IdleAccepts
    /\ IdleLower
    /\ IdleExpand

SpecEval == InitEval /\ [][NextEval]_vars

\* C13 as claimed: EvalAt returns a field value for every expression and
\* every row: no nil, no crash.
C13_EvalAtReturnsFieldValue == mpc = "done" => mval \in Field

(***************************************************************************)
(* The gadgets of the air package.  A schema is the columns, constraints   *)
(* and computations added to it, each in the order of the additions.       *)
(***************************************************************************)
\* A schema with the one data column X and nothing else.
EmptySchema == [columns |-> <<>>, constraints |-> <<>>, computations |-> <<>>, panic |-> FALSE]

\* schema.AddColumn(name, true)
AddColumn(schema, name) == [schema EXCEPT !.columns = Append(@, name)]

\* schema.AddRangeConstraint(name, bound)
AddRangeConstraint(schema, name, bound) ==
    [schema EXCEPT !.constraints = Append(@, RangeConstraint(name, MCol(name, 0), bound))]

\* schema.AddVanishingConstraint(handle, nil, expr)
AddVanishingConstraint(schema, handle, expr) ==
    [schema EXCEPT !.constraints = Append(@, VanishingConstraint(handle, expr))]

\* schema.AddComputation(c)
AddComputation(schema, c) == [schema EXCEPT !.computations = Append(@, c)]

\* The mutant of BinaryGadgetFactors: the factor X is missing.
BinaryGadgetFactorsWithoutX(X, X_m1) == <<X_m1, X_m1, X_m1>>

\* The arguments of the product ApplyBinaryGadget constructs.
BinaryGadgetFactors(X, X_m1) == <<X, X, X_m1>>

ApplyBinaryGadget(col, schema) ==
    LET X == MCol(col, 0)
        X_m1 == MSub(<<X, MConst(1)>>)
        X_X_m1 == MMul(BinaryGadgetFactors(X, X_m1))
    IN  AddVanishingConstraint(schema, col, X_X_m1)

\* The mutant of BitwidthRejected: a bitwidth of zero passes.
BitwidthRejectedUnlessZero(nbits) == nbits % 8 # 0

\* The bitwidths ApplyBitwidthGadget panics on.
BitwidthRejected(nbits) == nbits % 8 # 0 \/ nbits = 0

\* The mutant of Coefficient: every byte column has the coefficient 1.
CoefficientOne(x) == 1

\* The coefficient of the byte column x: 1 multiplied x times by 256.
Coefficient(x) == Pow256(x) % FieldPrime

RECURSIVE BitwidthColumns(_, _, _, _)

\* ApplyBitwidthGadget's loop from byte column x on.
BitwidthColumns(col, x, nbytes, schema) ==
    IF x >= nbytes THEN schema
    ELSE BitwidthColumns(col, x + 1, nbytes,
             AddRangeConstraint(AddColumn(schema, ByteColumnName(col, x)),
                                ByteColumnName(col, x), 256))

ApplyBitwidthGadget(col, nbits, schema) ==
    IF BitwidthRejected(nbits) THEN [schema EXCEPT !.panic = TRUE]
    ELSE LET nbytes == nbits \div 8
             es == [x \in 1 .. nbytes |->
                       MMul(<<MCol(ByteColumnName(col, x - 1), 0), MConst(Coefficient(x - 1))>>)]
             sum == MAdd(es)
             X == MCol(col, 0)
             eq == MSub(<<X, sum>>)
         IN  AddComputation(
                 AddVanishingConstraint(BitwidthColumns(col, 0, nbytes, schema), col, eq),
                 ByteDecomposition(col, nbits))

\* Dk.Equate(Xdiff): the difference of the two.
Equate(l, r) == MSub(<<l, r>>)

\* The mutant of SortingDelta: the delta of the descending sort, whatever the sign.
SortingDeltaDescending(sign, Xk, Xkm1) == MSub(<<Xkm1, Xk>>)

\* The delta of the sorting gadget: X[k] - X[k-1] when ascending, X[k-1] - X[k]
\* when descending.
SortingDelta(sign, Xk, Xkm1) == IF sign THEN MSub(<<Xk, Xkm1>>) ELSE MSub(<<Xkm1, Xk>>)

\* The mutant of ApplyColumnSortingGadget: the byte decomposition of the delta
\* column is declared before the computation of the delta column.
ApplyColumnSortingGadgetBytesFirst(column, sign, bitwidth, schema) ==
    LET Xdiff == SortingDelta(sign, MCol(column, 0), MCol(column, -1))
        deltaName == IF sign THEN "+" \o column ELSE "-" \o column
        s1 == ApplyBitwidthGadget(deltaName, bitwidth, AddColumn(schema, deltaName))
        s2 == AddComputation(s1, ComputedColumn(deltaName, Xdiff))
    IN  IF s1.panic THEN s1
        ELSE AddVanishingConstraint(s2, deltaName, Equate(MCol(deltaName, 0), Xdiff))

ApplyColumnSortingGadget(column, sign, bitwidth, schema) ==
    LET Xk == MCol(column, 0)
        Xkm1 == MCol(column, -1)
        Xdiff == SortingDelta(sign, Xk, Xkm1)
        deltaName == IF sign THEN "+" \o column ELSE "-" \o column
        s1 == AddComputation(AddColumn(schema, deltaName), ComputedColumn(deltaName, Xdiff))
        s2 == ApplyBitwidthGadget(deltaName, bitwidth, s1)
        Dk == MCol(deltaName, 0)
    IN  \* a panic of the bitwidth gadget leaves the schema with the delta
        \* column and its computation, which were added before the call
        IF s2.panic THEN s2
        ELSE AddVanishingConstraint(s2, deltaName, Equate(Dk, Xdiff))

\* The gadget g applied to a schema.
ApplyGadget(g, schema) ==
    IF g.kind = "binary" THEN ApplyBinaryGadget(g.col, schema)
    ELSE IF g.kind = "bitwidth" THEN ApplyBitwidthGadget(g.col, g.nbits, schema)
    ELSE ApplyColumnSortingGadget(g.col, g.sign, g.nbits, schema)

\* The gadget is applied to the schema; the expansion of the trace starts.
GadgetApply ==
    /\ gpc = "apply"
    /\ gschema' = ApplyGadget(gadget, EmptySchema)
    /\ IF gschema'.panic
       THEN /\ gpc' = "panic"
            /\ UNCHANGED <<assignments, epc>>
       ELSE /\ gpc' = "expand"
            /\ assignments' = gschema'.computations
            /\ epc' = "loop"
    /\ UNCHANGED <<trace, gadget, j, newCols, computed, run, firstTrace, eresult,
                   accVars, lowVars, evalVars>>

\* The trace is expanded; its acceptance by the schema's constraints starts.
GadgetAccept ==
    /\ gpc = "expand"
    /\ epc = "done"
    /\ eresult = Nil
    /\ gpc' = "accept"
    /\ constraints' = gschema.constraints
    /\ tasks' = [t \in DOMAIN gschema.constraints |-> "idle"]
    /\ pc' = "loop"
    /\ UNCHANGED <<trace, gadget, gschema, batchsize, iter, batch, n, i, err, chan,
                   received, result, lowVars, expVars, evalVars>>

NextGadget == GadgetApply \/ NextExpand \/ GadgetAccept \/ NextAccepts

\* The bitwidths handed to the bitwidth gadget.
Bitwidths == {0, 4, 8, 12, 16}

\* The gadgets applied to the column X; the deltas of the sorting gadget are
\* held to one byte.
Gadgets ==
    {[kind |-> "binary", col |-> "X"]}
        \cup {[kind |-> "bitwidth", col |-> "X", nbits |-> b] : b \in Bitwidths}
        \cup {[kind |-> "sort", col |-> "X", sign |-> sg, nbits |-> b] :
                 sg \in BOOLEAN, b \in {4, 8}}

\* Traces of the one column X.
GadgetTraces ==
    { [c \in {"X"} |-> Column(d, 0)] :
        d \in {<<0, 1, 0, 1>>, <<0, 2>>, <<1, 3, 0>>, <<0, 3, 3, 10>>, <<10, 3>>,
               <<255, 300>>, <<1, 65535>>} }

InitGadget ==
    /\ trace \in GadgetTraces
    /\ gadget \in Gadgets
    /\ gschema = EmptySchema
    /\ gpc = "apply"
    /\ batchsize \in {1, 2}
    /\ constraints = <<>>
    /\ pc = "idle"
    /\ iter = 1
    /\ batch = 0
    /\ n = 0
    /\ i = 0
    /\ err = Nil
    /\ chan = <<>>
    /\ tasks = <<>>
    /\ received = <<>>
    /\ result = Nil
    /\ assignments = <<>>
    /\ epc = "idle"
    /\ j = 0
    /\ newCols = <<>>
    /\ computed = <<>>
    /\ run = 1
    /\ firstTrace = <<>>
    /\ eresult = Nil
    /\ IdleLower
    /\ mexpr = MConst(0)
    /\ mk = 0
    /\ mval = 0
    /\ mpc = "idle"

SpecGadget == InitGadget /\ [][NextGadget]_vars

(***************************************************************************)
(* Properties of the gadgets.                                              *)
(***************************************************************************)
\* The rows (from 0) of the column X whose value is neither 0 nor 1.
NonBinaryRows == {r \in 0 .. (Height(trace) - 1) : GetByName(trace, "X", r) \notin {0, 1}}

\* The least element of a non-empty set of numbers.
Least(S) == CHOOSE x \in S : \A y \in S : x <= y

\* C14: the schema of the binarity gadget on X accepts a trace exactly when
\* every value of X is 0 or 1; otherwise the failure is a vanishing failure
\* with the handle X at the first row whose value is neither.
C14_BinaryGadgetAcceptsBits ==
    (gadget.kind = "binary" /\ gpc = "accept" /\ pc = "done") =>
        IF NonBinaryRows = {} THEN result = Nil
        ELSE /\ result.kind = "vanishing"
             /\ result.handle = "X"
             /\ result.row = Least(NonBinaryRows)

\* The trace X = <<0, 2>> has been rejected at row 1.
C14_Witness ==
    /\ gadget.kind = "binary"
    /\ gpc = "accept"
    /\ pc = "done"
    /\ trace["X"].data = <<0, 2>>
    /\ result.kind = "vanishing"
    /\ result.row = 1

\* C15 as claimed: ApplyBinaryGadget adds one vanishing constraint with the
\* handle X whose expression is the product of the two factors X and X - 1,
\* and nothing else.
C15_BinaryGadgetAddsProductOfTwoFactors ==
    (gadget.kind = "binary" /\ gpc # "apply") =>
        gschema = [columns |-> <<>>,
                   constraints |->
                       <<VanishingConstraint("X",
                             MMul(<<MCol("X", 0), MSub(<<MCol("X", 0), MConst(1)>>)>>))>>,
                   computations |-> <<>>,
                   panic |-> FALSE]

\* The constraints of the schema of the given kind, in the order added.
ConstraintsOfKind(schema, kind) == SelectSeq(schema.constraints, LAMBDA p : p.kind = kind)

\* The sum of the byte columns X:0 .. X:(nbytes - 1), each times 256^i.
ByteSum(nbytes) ==
    MAdd([x \in 1 .. nbytes |->
             MMul(<<MCol("X:" \o ToString(x - 1), 0), MConst(Pow256(x - 1))>>)])

\* C16: for a bitwidth nbits that is a positive multiple of 8, with
\* n = nbits / 8, ApplyBitwidthGadget adds exactly the n columns X:0 .. X:(n-1),
\* one range constraint with the bound 256 on each of them, exactly one
\* vanishing constraint, with the handle X and the expression
\* X - (X:0 * 256^0 + ... + X:(n-1) * 256^(n-1)), and the one byte
\* decomposition of X of width nbits.
C16_BitwidthGadgetAddsByteDecomposition ==
    (gadget.kind = "bitwidth" /\ gadget.nbits > 0 /\ gadget.nbits % 8 = 0 /\ gpc # "apply") =>
        LET nbytes == gadget.nbits \div 8
        IN  /\ ~gschema.panic
            /\ gschema.columns = [x \in 1 .. nbytes |-> "X:" \o ToString(x - 1)]
            /\ Len(gschema.constraints) = nbytes + 1
            /\ ConstraintsOfKind(gschema, "range") =
                   [x \in 1 .. nbytes |->
                       [kind |-> "range", handle |-> gschema.columns[x],
                        expr |-> MCol(gschema.columns[x], 0), bound |-> 256]]
            /\ ConstraintsOfKind(gschema, "vanishing") =
                   <<[kind |-> "vanishing", handle |-> "X",
                      expr |-> MSub(<<MCol("X", 0), ByteSum(nbytes)>>)]>>
            /\ gschema.computations =
                   <<[kind |-> "bytes", source |-> "X", nbits |-> gadget.nbits,
                      sources |-> <<"X">>, targets |-> gschema.columns]>>

\* The bitwidth gadget of 16 bits has added the two columns X:0 and X:1.
C16_Witness ==
    /\ gadget.kind = "bitwidth"
    /\ gadget.nbits = 16
    /\ gpc = "expand"
    /\ gschema.columns = <<"X:0", "X:1">>
    /\ Len(gschema.constraints) = 3

\* C17: ApplyBitwidthGadget rejects, by a panic at the construction of the
\* schema, every bitwidth that is not a multiple of 8 and the bitwidth 0: the
\* schema is not built, nothing is expanded and nothing is checked.
C17_BitwidthGadgetRejectsBadWidths ==
    (gadget.kind = "bitwidth" /\ gpc # "apply") =>
        IF gadget.nbits % 8 # 0 \/ gadget.nbits = 0
        THEN /\ gpc = "panic"
             /\ gschema.panic
             /\ epc = "idle"
             /\ pc = "idle"
        ELSE gpc # "panic" /\ ~gschema.panic

\* The bitwidth 0 has been rejected.
C17_Witness ==
    /\ gadget.kind = "bitwidth"
    /\ gadget.nbits = 0
    /\ gpc = "panic"
    /\ gschema.panic

\* 2^nbits, for nbits a multiple of 8.
TwoToThe(nbits) == Pow256(nbits \div 8)

\* The rows of the trace.
Rows == 0 .. (Height(trace) - 1)

\* The sum of the byte columns X:0 .. X:(nbytes - 1) at row r, each times 256^i.
RECURSIVE ByteSumAt(_, _)
ByteSumAt(nbytes, r) ==
    IF nbytes = 0 THEN 0
    ELSE ByteSumAt(nbytes - 1, r)
             + GetByName(trace, "X:" \o ToString(nbytes - 1), r) * Pow256(nbytes - 1)

\* The trace has been expanded by the byte decomposition of the bitwidth gadget.
BitwidthExpanded ==
    gadget.kind = "bitwidth" /\ gpc \in {"expand", "accept"} /\ epc = "done" /\ eresult = Nil

\* C18 as claimed: after the expansion, on every row, every byte column holds
\* a value in [0, 256) and the bytes sum up to X.
C18_BytesSumToX ==
    BitwidthExpanded =>
        \A r \in Rows :
            /\ \A x \in 0 .. (gadget.nbits \div 8 - 1) :
                   GetByName(trace, "X:" \o ToString(x), r) \in 0 .. 255
            /\ ByteSumAt(gadget.nbits \div 8, r) = GetByName(trace, "X", r)

\* C18, amended: after the expansion, on every row, every byte column holds a
\* value in [0, 256) and the bytes sum up to X modulo 2^nbits: to X itself on
\* the rows where X < 2^nbits, and on every row of a trace the schema accepts.
C18_BytesSumToXBelowWidth ==
    BitwidthExpanded =>
        /\ \A r \in Rows :
               /\ \A x \in 0 .. (gadget.nbits \div 8 - 1) :
                      GetByName(trace, "X:" \o ToString(x), r) \in 0 .. 255
               /\ ByteSumAt(gadget.nbits \div 8, r)
                      = GetByName(trace, "X", r) % TwoToThe(gadget.nbits)
               /\ GetByName(trace, "X", r) < TwoToThe(gadget.nbits) =>
                      ByteSumAt(gadget.nbits \div 8, r) = GetByName(trace, "X", r)
        /\ (gpc = "accept" /\ pc = "done" /\ result = Nil) =>
               \A r \in Rows : ByteSumAt(gadget.nbits \div 8, r) = GetByName(trace, "X", r)

\* A column holding 300 has been decomposed into the two bytes 44 and 1.
C18_Witness ==
    /\ BitwidthExpanded
    /\ gadget.nbits = 16
    /\ trace["X"].data = <<255, 300>>
    /\ trace["X:0"].data = <<255, 44>>
    /\ trace["X:1"].data = <<0, 1>>

\* The ascending sorting gadget of one byte has been applied and the trace expanded.
AscendingExpanded ==
    /\ gadget.kind = "sort"
    /\ gadget.sign
    /\ gadget.nbits = 8
    /\ gpc \in {"expand", "accept"}
    /\ epc = "done"
    /\ eresult = Nil

\* X[r] - X[r-1] in the field, the row before the first being padding.
AscendingDelta(r) ==
    (GetByName(trace, "X", r) - GetByName(trace, "X", r - 1) + FieldPrime) % FieldPrime

\* The rows whose delta does not fit the width of the gadget.
WideDeltaRows == {r \in Rows : AscendingDelta(r) >= TwoToThe(gadget.nbits)}

\* The expanded trace holds the column +X of the deltas of X.
DeltaColumnComputed ==
    /\ HasColumn(trace, "+X")
    /\ \A r \in Rows : GetByName(trace, "+X", r) = AscendingDelta(r)

\* C19 as claimed: the expanded trace holds the deltas of X in the column +X;
\* it is accepted when every delta is below 2^w, and otherwise the failure is a
\* range failure on +X at the first row whose delta is not.
C19_UnsortedIsARangeFailure ==
    AscendingExpanded =>
        /\ DeltaColumnComputed
        /\ (gpc = "accept" /\ pc = "done") =>
               IF WideDeltaRows = {} THEN result = Nil
               ELSE /\ result.kind = "range"
                    /\ result.handle = "+X"
                    /\ result.row = Least(WideDeltaRows)

\* C19, amended: the expanded trace holds the deltas of X in the column +X; it
\* is accepted exactly when every delta is below 2^w, and otherwise the failure
\* is a vanishing failure with the handle +X at the first row whose delta is
\* not: the byte column of +X holds the lowest byte of the delta, which passes
\* its range constraint, and the sum of the bytes is not the delta.
C19_UnsortedIsAVanishingFailure ==
    AscendingExpanded =>
        /\ DeltaColumnComputed
        /\ \A r \in Rows : GetByName(trace, "+X:0", r) \in 0 .. 255
        /\ (gpc = "accept" /\ pc = "done") =>
               IF WideDeltaRows = {} THEN result = Nil
               ELSE /\ result.kind = "vanishing"
                    /\ result.handle = "+X"
                    /\ result.row = Least(WideDeltaRows)

\* The trace X = <<10, 3>> has been rejected at row 1, where the delta wraps.
C19_Witness ==
    /\ AscendingExpanded
    /\ gpc = "accept"
    /\ pc = "done"
    /\ trace["X"].data = <<10, 3>>
    /\ trace["+X"].data = <<10, FieldPrime - 7>>
    /\ result.kind = "vanishing"
    /\ result.row = 1

\* The lexicographic sort of the sample schema: X ascending, then Y descending.
SampleSort == LexicographicSort(<<"D", "S0", "S1">>, <<"X", "Y">>, <<TRUE, FALSE>>)

\* The sources of the sample sort whose value on row r differs from their
\* value on the row before.
DifferingSources(r) ==
    {x \in DOMAIN SampleSort.sources :
        GetByName(trace, SampleSort.sources[x], r) # GetByName(trace, SampleSort.sources[x], r - 1)}

\* The columns of the sample sort have been added to the trace.
SampleSortComputed == \A x \in DOMAIN SampleSort.targets : HasColumn(trace, SampleSort.targets[x])

\* C20: on every row, LexicographicSort.ComputeColumns takes the first source
\* whose value differs from its value on the row before: without one the delta
\* and every selector are 0; otherwise the selector of that source is 1, every
\* other selector is 0, and the delta is curr - prev of that source when its
\* sign is ascending and prev - curr when it is descending, in the field.
C20_LexicographicSortDeltaAndSelectors ==
    SampleSortComputed =>
        \A r \in Rows :
            IF DifferingSources(r) = {}
            THEN /\ GetByName(trace, "D", r) = 0
                 /\ \A x \in DOMAIN SampleSort.sources :
                        GetByName(trace, SampleSort.targets[x + 1], r) = 0
            ELSE LET w == Least(DifferingSources(r))
                     curr == GetByName(trace, SampleSort.sources[w], r)
                     prev == GetByName(trace, SampleSort.sources[w], r - 1)
                 IN  /\ \A x \in DOMAIN SampleSort.sources :
                            GetByName(trace, SampleSort.targets[x + 1], r)
                                = IF x = w THEN 1 ELSE 0
                     /\ GetByName(trace, "D", r)
                            = IF SampleSort.signs[w]
                              THEN (curr - prev + FieldPrime) % FieldPrime
                              ELSE (prev - curr + FieldPrime) % FieldPrime

\* X wins row 0 and the descending Y wins row 1, where its delta 1 - 2 wraps.
C20_Witness ==
    /\ SampleSortComputed
    /\ trace["X"].data = <<1, 1>>
    /\ trace["Y"].data = <<1, 2>>
    /\ trace["D"].data = <<1, FieldPrime - 1>>
    /\ trace["S0"].data = <<1, 0>>
    /\ trace["S1"].data = <<0, 1>>

\* The sources X = <<1, 1, 2>> and Y = <<5, 7, 1>> have been sorted, both
\* ascending, into the delta column E and the selector columns T0 and T1.
ExampleSortComputed ==
    /\ trace["X"].data = <<1, 1, 2>>
    /\ trace["Y"].data = <<5, 7, 1>>
    /\ HasColumn(trace, "E")
    /\ HasColumn(trace, "T0")
    /\ HasColumn(trace, "T1")

SamplePermutation == SortedPermutation(<<"P", "Q">>, <<TRUE, FALSE>>, <<"X", "Y">>)

\* The columns of the sample permutation have been added to the trace.
SamplePermutationExpanded == HasColumn(trace, "P") /\ HasColumn(trace, "Q")

\* The rows of the columns a and b that hold the pair v.
RowsHolding(a, b, v) == {r \in Rows : <<GetByName(trace, a, r), GetByName(trace, b, r)>> = v}

\* C22: after SortedPermutation.ExpandTrace the target columns hold the rows
\* of the source columns, each as often; they are in the lexicographic order
\* of the signs; every target has the padding of its source; the source
\* columns are as the assignment found them; and SortedPermutation.Accepts
\* returns no error on the trace.
C22_SortedPermutationExpandsToAcceptedColumns ==
    SamplePermutationExpanded =>
        /\ \A r \in Rows :
               LET v == <<GetByName(trace, "X", r), GetByName(trace, "Y", r)>>
               IN  Cardinality(RowsHolding("P", "Q", v)) = Cardinality(RowsHolding("X", "Y", v))
        /\ Len(trace["P"].data) = Len(trace["X"].data)
        /\ Len(trace["Q"].data) = Len(trace["Y"].data)
        /\ \A r \in Rows : r + 1 \in Rows =>
               \/ GetByName(trace, "P", r) < GetByName(trace, "P", r + 1)
               \/ /\ GetByName(trace, "P", r) = GetByName(trace, "P", r + 1)
                  /\ GetByName(trace, "Q", r) >= GetByName(trace, "Q", r + 1)
        /\ trace["P"].padding = trace["X"].padding
        /\ trace["Q"].padding = trace["Y"].padding
        /\ \A x \in DOMAIN computed :
               assignments[x] = SamplePermutation =>
                   /\ trace["X"] = computed[x].seen["X"]
                   /\ trace["Y"] = computed[x].seen["Y"]
        /\ SortedPermutationAccepts(SamplePermutation, 1, trace).err = Nil

\* The rows <<1, 5>>, <<1, 7>>, <<2, 1>> have been sorted: the two rows that
\* agree on X are in the descending order of Y.
C22_Witness ==
    /\ SamplePermutationExpanded
    /\ trace["X"].data = <<1, 1, 2>>
    /\ trace["Y"].data = <<5, 7, 1>>
    /\ trace["P"].data = <<1, 1, 2>>
    /\ trace["Q"].data = <<7, 5, 1>>
    /\ trace["Q"].padding = trace["Y"].padding

(***************************************************************************)
(* The acceptor on schemas of sorted permutations.                         *)
(***************************************************************************)
\* Traces of three rows: T is a sorted permutation of S, no permutation of it,
\* or a permutation that is not sorted; P and Q are the rows of X and Y, the
\* columns of X and Y permuted one by one, unsorted, or no permutation.
PermutationTraces ==
    { [c \in {"S", "T", "X", "Y", "P", "Q"} |->
          Column(CASE c = "S" -> <<3, 1, 2>>
                   [] c = "T" -> t
                   [] c = "X" -> <<1, 2, 3>>
                   [] c = "Y" -> <<1, 2, 3>>
                   [] c = "P" -> pq[1]
                   [] c = "Q" -> pq[2], 0)] :
        t \in {<<1, 2, 3>>, <<1, 2, 2>>, <<3, 1, 2>>},
        pq \in {<<(<<1, 2, 3>>), (<<1, 2, 3>>)>>, <<(<<1, 2, 3>>), (<<3, 2, 1>>)>>,
                <<(<<3, 2, 1>>), (<<3, 2, 1>>)>>, <<(<<1, 2, 2>>), (<<1, 2, 3>>)>>} }

\* The sorted permutations of the schema: of one column and of two.
PermutationPool ==
    { SortedPermutation(<<"T">>, <<TRUE>>, <<"S">>),
      SortedPermutation(<<"P", "Q">>, <<TRUE, FALSE>>, <<"X", "Y">>) }

InitPermutation ==
    /\ trace \in PermutationTraces
    /\ \E len \in 1 .. 2 : constraints \in [1 .. len -> PermutationPool]
    /\ batchsize \in 1 .. 2
    /\ EnterAccepts
    /\ IdleLower
    /\ IdleExpand
    /\ IdleEval
    /\ IdleGadget

SpecPermutation == InitPermutation /\ [][Next]_vars

\* The row r of the columns cs.
TupleAt(cs, r) == [x \in DOMAIN cs |-> GetByName(trace, cs[x], r)]

\* The rows of the targets are the rows of the sources, each as often.
RowMultisetsEqual(p) ==
    \A r \in Rows :
        Cardinality({q \in Rows : TupleAt(p.targets, q) = TupleAt(p.sources, r)})
            = Cardinality({q \in Rows : TupleAt(p.sources, q) = TupleAt(p.sources, r)})

\* No row of the targets comes before the row above it.
TargetRowsOrdered(p) ==
    LET cs == [x \in DOMAIN p.targets |-> trace[p.targets[x]].data]
    IN  \A r \in 1 .. (Len(cs[1]) - 1) : ~RowBefore(cs, p.signs, r + 1, r)

\* C23 as claimed: a schema of one sorted permutation accepts a trace exactly
\* when the rows of the targets are a permutation of the rows of the sources
\* and are lexicographically ordered; when they are no permutation the
\* failure is a permutation failure.
C23_PermutationComparesRows ==
    (pc = "done" /\ Len(constraints) = 1) =>
        /\ result = Nil <=> (RowMultisetsEqual(constraints[1]) /\ TargetRowsOrdered(constraints[1]))
        /\ ~RowMultisetsEqual(constraints[1]) => result.kind = "not-permutation"

(***************************************************************************)
(* The acceptor on schemas of range constraints.                           *)
(***************************************************************************)
\* Traces of the one column X, of the heights 0 to 3.
RangeTraces ==
    { [c \in {"X"} |-> Column(d, 0)] :
        d \in {<<>>, <<1>>, <<4>>, <<0, 1>>, <<3, 4>>, <<1, 4, 4>>, <<3, 0, 5>>,
               <<255, 256, 65535>>} }

\* Range constraints on X and on X + 1.
RangePool ==
    { RangeConstraint("X", MCol("X", 0), 2),
      RangeConstraint("X", MCol("X", 0), 4),
      RangeConstraint("X", MCol("X", 0), 256),
      RangeConstraint("X1", MAdd(<<MCol("X", 0), MConst(1)>>), 4) }

InitRange ==
    /\ trace \in RangeTraces
    /\ \E len \in 1 .. 2 : constraints \in [1 .. len -> RangePool]
    /\ batchsize \in 1 .. 2
    /\ EnterAccepts
    /\ IdleLower
    /\ IdleExpand
    /\ IdleEval
    /\ IdleGadget

SpecRange == InitRange /\ [][Next]_vars

\* The value of the expression of the range constraint p on row k.
RangeValue(p, k) ==
    IF p.expr.op = "col" THEN GetByName(trace, "X", k)
    ELSE (GetByName(trace, "X", k) + 1) % FieldPrime

\* The rows on which the value of the constraint p is not below its bound.
RowsOutOfRange(p) == {k \in Rows : RangeValue(p, k) >= p.bound}

\* C24: a range constraint returns no failure exactly when the value of its
\* expression is below the bound on every row of the trace; otherwise the
\* failure is a range failure with the constraint's handle and the first row
\* whose value is not below the bound; a trace without rows is accepted.
C24_RangeFailsAtFirstRowOutOfRange ==
    pc = "done" =>
        /\ result = Nil <=> \A c \in DOMAIN constraints : RowsOutOfRange(constraints[c]) = {}
        /\ result # Nil =>
               /\ result.c \in DOMAIN constraints
               /\ RowsOutOfRange(constraints[result.c]) # {}
               /\ result.kind = "range"
               /\ result.handle = constraints[result.c].handle
               /\ result.row = Least(RowsOutOfRange(constraints[result.c]))
        /\ Height(trace) = 0 => result = Nil

\* X = <<1, 4, 4>> has failed the bound 4 at row 1, the first of two rows
\* that hold the bound itself.
C24_Witness ==
    /\ pc = "done"
    /\ Len(constraints) = 1
    /\ constraints[1].expr = MCol("X", 0)
    /\ constraints[1].bound = 4
    /\ trace["X"].data = <<1, 4, 4>>
    /\ result.kind = "range"
    /\ result.handle = "X"
    /\ result.row = 1

(***************************************************************************)
(* The lowering of HIR constraints to the MIR schema.                      *)
(***************************************************************************)
\* Expressions whose lists and conditionals are nested in other operators.
HNested ==
    LET X == HCol("X", 0)
        Y == HCol("Y", 0)
        XY1 == HIfZero(X, Y, HConst(1))
        YX1 == HIfZero(Y, X, HConst(1))
    IN  { HExp(X, 2), HExp(XY1, 2),
          HList(<<>>), HList(<<XY1, HList(<<X, Y>>)>>),
          HAdd(<<XY1, YX1>>), HSub(<<XY1, X, YX1>>), HMul(<<HList(<<X, Y>>), XY1>>),
          HNorm(HList(<<X, Y, HConst(1)>>)),
          HIfZero(XY1, X, Y), HIfZero(HList(<<X, Y>>), X, NilE),
          HIfZero(X, HList(<<X, Y, XY1>>), YX1), HIfZero(X, NilE, NilE) }

InitLowerConstraint ==
    /\ trace \in {t \in LowerTraces : t["X"].data = <<0>>}
    /\ hexpr \in HExprs \cup HNested
    /\ hcons \in HConstraints
    /\ mirSchema = <<>>
    /\ expanded = <<>>
    /\ lowered = <<>>
    /\ lpc = "expand"
    /\ IdleAccepts
    /\ IdleExpand
    /\ IdleEval
    /\ IdleGadget

SpecLowerConstraint == InitLowerConstraint /\ [][NextLower]_vars

RECURSIVE ExpansionCount(_)
RECURSIVE ExpansionCountSum(_)
RECURSIVE ExpansionCountProduct(_)

\* The sum of the numbers of expansions of the expressions es.
ExpansionCountSum(es) ==
    IF es = <<>> THEN 0 ELSE ExpansionCount(Head(es)) + ExpansionCountSum(Tail(es))

\* The product of the numbers of expansions of the expressions es.
ExpansionCountProduct(es) ==
    IF es = <<>> THEN 1 ELSE ExpansionCount(Head(es)) * ExpansionCountProduct(Tail(es))

\* The number of expansions of an HIR expression: 1 for a leaf, the sum over
\* the elements of a list, the product over the arguments of a sum, difference
\* or product, that of the argument of a power or a normalisation, and for a
\* conditional that of the condition times the sum of those of the branches,
\* an absent branch counting 0.
ExpansionCount(e) ==
    IF e.op = "nil" THEN 0
    ELSE IF e.op \in {"Const", "Col"} THEN 1
    ELSE IF e.op = "List" THEN ExpansionCountSum(e.args)
    ELSE IF e.op \in {"Add", "Sub", "Mul"} THEN ExpansionCountProduct(e.args)
    ELSE IF e.op \in {"Exp", "Norm"} THEN ExpansionCount(e.arg)
    ELSE ExpansionCount(e.cond) * (ExpansionCount(e.tb) + ExpansionCount(e.fb))

\* C25: the lowering of an HIR vanishing or range constraint adds to the MIR
\* schema one constraint per expression of the expansion of its expression, in
\* the order of the expansion, each with the handle, the context and the
\* domain (or the bound) of the HIR constraint; the number of expansions is
\* the one ExpansionCount gives.
C25_OneConstraintPerExpansion ==
    /\ lpc # "expand" => Len(expanded) = ExpansionCount(hexpr)
    /\ Len(mirSchema) <= Len(lowered)
    /\ lpc = "added" => Len(mirSchema) = ExpansionCount(hexpr)
    /\ \A x \in DOMAIN mirSchema :
           /\ mirSchema[x].constraint.kind = hcons.kind
           /\ mirSchema[x].constraint.handle = hcons.handle
           /\ mirSchema[x].context = hcons.context
           /\ hcons.kind = "vanishing" => mirSchema[x].domain = hcons.domain
           /\ hcons.kind = "range" => mirSchema[x].constraint.bound = hcons.bound
           /\ mirSchema[x].constraint.expr
                  = mul2(extractCondition(expanded[x]), extractBody(expanded[x]))

\* The range constraint on IfZero(IfZero(X, Y, 1), X, Y) has been lowered to
\* four range constraints.
C25_Witness ==
    /\ lpc = "added"
    /\ hcons.kind = "range"
    /\ hexpr = HIfZero(HIfZero(HCol("X", 0), HCol("Y", 0), HConst(1)), HCol("X", 0), HCol("Y", 0))
    /\ Len(mirSchema) = 4
    /\ mirSchema[4].constraint.handle = "r"
    /\ mirSchema[4].constraint.bound = 4

RECURSIVE WellExpanded(_)

\* The expression holds no list, no conditional with both branches or with
\* none, no sum directly under a sum and no product directly under a product,
\* at any depth: in arguments, in conditions and in branches.
WellExpanded(e) ==
    IF e.op \in {"Const", "Col"} THEN TRUE
    ELSE IF e.op \in {"Add", "Sub", "Mul"}
         THEN \A x \in DOMAIN e.args :
                  /\ WellExpanded(e.args[x])
                  /\ e.op \in {"Add", "Mul"} => e.args[x].op # e.op
    ELSE IF e.op \in {"Exp", "Norm"} THEN WellExpanded(e.arg)
    ELSE IF e.op = "IfZero"
         THEN /\ WellExpanded(e.cond)
              /\ (e.tb = NilE) # (e.fb = NilE)
              /\ e.tb # NilE => WellExpanded(e.tb)
              /\ e.fb # NilE => WellExpanded(e.fb)
    ELSE FALSE

\* C27: every expression expand returns is well expanded; extractCondition
\* and extractBody do not panic on it, and lowerTo does not crash.
C27_ExpandedExpressionsLowerWithoutPanic ==
    /\ \A x \in DOMAIN expanded :
           /\ WellExpanded(expanded[x])
           /\ extractCondition(expanded[x]) # PanicE
           /\ extractBody(expanded[x]) # PanicE
    /\ \A x \in DOMAIN lowered : lowered[x] # PanicE
    /\ lpc \in {"done", "added"} => Len(lowered) = Len(expanded)

\* A conditional whose condition is a list has been expanded into one
\* conditional per element of the list and lowered.
C27_Witness ==
    /\ lpc = "added"
    /\ hexpr = HIfZero(HList(<<HCol("X", 0), HCol("Y", 0)>>), HCol("X", 0), NilE)
    /\ expanded = <<HIfZero(HCol("X", 0), HCol("X", 0), NilE),
                    HIfZero(HCol("Y", 0), HCol("X", 0), NilE)>>
    /\ Len(lowered) = 2

\* The columns the computations of the schema declared before position x
\* produce, and the input column X.
ColumnsDeclaredBefore(x) ==
    {"X"} \cup UNION {Columns(gschema.computations[y]) : y \in 1 .. (x - 1)}

\* C26: in every schema a gadget has built, every computation reads only the
\* input column and columns of computations declared before it; the sorting
\* gadget declares the computation of the delta column before its byte
\* decomposition, and the expansion in declaration order finds every column a
\* computation reads.
C26_DeclarationOrderIsTopological ==
    gpc \in {"expand", "accept"} =>
        /\ \A x \in DOMAIN gschema.computations :
               Dependencies(gschema.computations[x]) \subseteq ColumnsDeclaredBefore(x)
        /\ gadget.kind = "sort" =>
               LET deltaName == IF gadget.sign THEN "+X" ELSE "-X"
               IN  /\ Len(gschema.computations) = 2
                   /\ gschema.computations[1].kind = "computed"
                   /\ gschema.computations[1].targets = <<deltaName>>
                   /\ gschema.computations[2].kind = "bytes"
                   /\ gschema.computations[2].source = deltaName
        /\ assignments = gschema.computations
        /\ eresult = Nil
        /\ epc = "done" =>
               \A x \in DOMAIN gschema.computations :
                   \A c \in Columns(gschema.computations[x]) : HasColumn(trace, c)

\* The descending sorting gadget has been expanded: the delta column -X and
\* its byte column are in the trace.
C26_Witness ==
    /\ gadget.kind = "sort"
    /\ ~gadget.sign
    /\ gpc = "expand"
    /\ epc = "done"
    /\ eresult = Nil
    /\ HasColumn(trace, "-X")
    /\ HasColumn(trace, "-X:0")

(***************************************************************************)
(* The termination of the acceptor.                                        *)
(***************************************************************************)
\* Schemas of one or two range constraints, checked in batches of 0 to 2.
InitLive ==
    /\ trace \in RangeTraces
    /\ \E len \in 1 .. 2 : constraints \in [1 .. len -> RangePool]
    /\ batchsize \in 0 .. 2
    /\ EnterAccepts
    /\ IdleLower
    /\ IdleExpand
    /\ IdleEval
    /\ IdleGadget

\* The checker goroutine of the constraint t, once launched.
LaunchedChecker(t) == t \in DOMAIN tasks /\ Checker(t)

\* The goroutine of Accepts and the checkers it launched keep running.
SpecLive ==
    /\ InitLive
    /\ [][Next]_vars
    /\ WF_vars(AcceptsLoop)
    /\ WF_vars(Launch)
    /\ WF_vars(LaunchEnd)
    /\ WF_vars(Receive)
    /\ WF_vars(BatchReturnFailure)
    /\ WF_vars(BatchReturnNil)
    /\ \A t \in 1 .. 2 : WF_vars(LaunchedChecker(t))

\* C28 as claimed: Accepts returns, for every batch size (0 included) and
\* every list of constraints, and when it returns without a failure the
\* checker of every constraint has run.
C28_AcceptsTerminates ==
    /\ <>(pc = "done")
    /\ [](pc = "done" /\ result = Nil => \A t \in DOMAIN tasks : tasks[t] = "done")

\* The lexicographic sorts of the sample schema.
SampleSorts ==
    { LexicographicSort(<<"D", "S0", "S1">>, <<"X", "Y">>, <<TRUE, FALSE>>),
      LexicographicSort(<<"E", "T0", "T1">>, <<"X", "Y">>, <<TRUE, TRUE>>) }

\* The positions of the assignments that are lexicographic sorts and whose
\* columns have been added to the trace.
SortsAdded ==
    {x \in DOMAIN computed :
        /\ assignments[x] \in SampleSorts
        /\ \A y \in DOMAIN assignments[x].targets : HasColumn(trace, assignments[x].targets[y])}

\* The selectors of the sort p that are 1 on row r.
SelectorsSet(p, r) == {y \in DOMAIN p.sources : GetByName(trace, p.targets[y + 1], r) = 1}

\* C29: in the columns of a lexicographic sort every selector is 0 or 1 on
\* every row, at most one selector is 1, and the delta is 0 exactly when all
\* selectors are 0; the sort returns one delta column and one selector column
\* per source, each of the height of the trace and padded with zero; and the
\* trace it read is as it found it.
C29_SelectorsAreExclusiveBits ==
    \A x \in SortsAdded :
        LET p == assignments[x]
        IN  /\ Len(p.targets) = Len(p.sources) + 1
            /\ computed[x].err = Nil
            /\ \A y \in DOMAIN p.targets :
                   /\ Len(trace[p.targets[y]].data) = Len(trace["X"].data)
                   /\ trace[p.targets[y]].padding = 0
            /\ \A r \in Rows :
                   /\ \A y \in DOMAIN p.sources :
                          GetByName(trace, p.targets[y + 1], r) \in {0, 1}
                   /\ Cardinality(SelectorsSet(p, r)) <= 1
                   /\ GetByName(trace, p.targets[1], r) = 0 <=> SelectorsSet(p, r) = {}
            /\ \A c \in DOMAIN computed[x].seen : trace[c] = computed[x].seen[c]

\* Both sources differ from the row before on row 2 of the example and only
\* the selector of the first is set.
C29_Witness ==
    /\ SortsAdded # {}
    /\ HasColumn(trace, "E")
    /\ trace["X"].data = <<1, 1, 2>>
    /\ trace["Y"].data = <<5, 7, 1>>
    /\ GetByName(trace, "T0", 2) = 1
    /\ GetByName(trace, "T1", 2) = 0
    /\ GetByName(trace, "E", 2) = 1

\* C30: when a gadget is rejected for its bitwidth (not a positive multiple
\* of 8), directly or through the sorting gadget, the schema is as it was
\* before the call: no column, constraint or computation has been added.
C30_RejectedGadgetLeavesSchemaUntouched ==
    gpc = "panic" =>
        /\ gschema.columns = EmptySchema.columns
        /\ gschema.constraints = EmptySchema.constraints
        /\ gschema.computations = EmptySchema.computations

====
